---- MODULE Spec2Model ----
(***************************************************************************)
(* Model of gltf-to-wl-bin: the legacy project generator                   *)
(* (legacyGenerateProject, class Node) and the template project parser     *)
(* (parseTemplateProject, getMaxId).                                       *)
(*                                                                         *)
(* JavaScript values are encoded with one TLA+ type per field:             *)
(*   - a string is a sequence of tokens; a decimal digit is one token, so  *)
(*     (12).toString() is <<"1", "2">> and Number() parses it back;        *)
(*   - null and undefined in a number-valued field are Null and Undefined; *)
(*   - an optional string field that is absent is Absent;                  *)
(*   - node indices are 0-based as in the source.                          *)
(***************************************************************************)
EXTENDS Integers, Sequences, FiniteSets, TLC

(***************************************************************************)
(* Bounds of the explored inputs.                                          *)
(***************************************************************************)
MaxNodes == 3          \* nodes of a document with arbitrary children lists
MaxEdges == 2          \* child references of such a document
MaxForestNodes == 5    \* nodes of a well-formed document
MaxWideChildren == 2   \* children below four parentless nodes
PadNodes == 8          \* childless nodes that follow the first three of a long document
StackLimit == 9        \* dfs calls the call stack holds
MaxTextures == 3
MaxSources == 2
MaxNames == 2          \* entries of a named category
MaxSkins == 2
MaxJoints == 2         \* joint references of a document, over all skins
MaxSkinNodes == 2
MaxTemplateKeys == 2     \* entries of a template project file
MaxKey == 4              \* numeric keys 4, 8, ... of a template project file
MaxOptions == 2          \* options on a command line
MaxModels == 2           \* model arguments on a command line
ReservedIds == 5         \* the number given to --reserve-ids
MaxNamedNodes == 3        \* nodes of a document whose nodes may be named
MaxSpawns == 3            \* calls of spawnWLE
MaxErrors == 1            \* 'error' events of one child process
MaxRuns == 2             \* calls of legacyGenerateProject in a row

(***************************************************************************)
(* Encodings of JavaScript values.                                         *)
(***************************************************************************)
Null == -1
Undefined == -2
Root == -3
NaN == -4
Absent == <<>>
EmptyString == <<"">>
NullStr == <<"<null>">>
EmptyMap == <<>>

Digits == <<"0", "1", "2", "3", "4", "5", "6", "7", "8", "9">>

IsDigit(tok) == \E d \in 1..10 : Digits[d] = tok

DigitVal(tok) == (CHOOSE d \in 1..10 : Digits[d] = tok) - 1

RECURSIVE toString(_)
toString(n) ==
    IF n < 10 THEN <<Digits[n + 1]>>
    ELSE toString(n \div 10) \o <<Digits[(n % 10) + 1]>>

RECURSIVE ParseDigits(_, _)
ParseDigits(s, acc) ==
    IF s = <<>> THEN acc
    ELSE ParseDigits(Tail(s), acc * 10 + DigitVal(Head(s)))

\* Number(str) for the key strings of a project file: a run of decimal
\* digits (the empty string as well) is its value, any other string is NaN.
Number(s) ==
    IF \A k \in 1..Len(s) : IsDigit(s[k])
    THEN ParseDigits(s, 0)
    ELSE NaN

isNaN(n) == n = NaN

\* A value that is a number or a string, as maxID is in parseTemplateProject.
JSNumber(n) == [t |-> "number", n |-> n, s |-> <<>>]

JSString(s) == [t |-> "string", n |-> 0, s |-> s]

\* The number an operand of <= is converted to.
ToNumber(v) == IF v.t = "number" THEN v.n ELSE Number(v.s)

\* a <= b on numbers: false when either is NaN.
LessEq(a, b) == ~isNaN(a) /\ ~isNaN(b) /\ a <= b

\* s < t as Array.prototype.sort() compares the strings of two numbers:
\* code unit by code unit, a proper prefix first.
RECURSIVE StrLess(_, _)
StrLess(s, t) ==
    IF t = <<>> THEN FALSE
    ELSE IF s = <<>> THEN TRUE
    ELSE IF Head(s) = Head(t) THEN StrLess(Tail(s), Tail(t))
    ELSE DigitVal(Head(s)) < DigitVal(Head(t))

SortLess(a, b) == StrLess(toString(a), toString(b))

\* Array.from(set).sort(): the elements ordered by their strings.
RECURSIVE SortDefault(_)
SortDefault(S) ==
    IF S = {} THEN <<>>
    ELSE LET m == CHOOSE x \in S : \A y \in S \ {x} : SortLess(x, y)
         IN  <<m>> \o SortDefault(S \ {m})

At(seq, k) == seq[k + 1]

Put(map, key, val) == (key :> val) @@ map

Range(seq) == {seq[k] : k \in 1..Len(seq)}

\* Map.prototype.get: undefined for a key the map does not hold.
Get(map, key) == IF key \in DOMAIN map THEN map[key] ELSE Undefined

\* !name that takes the empty string for a name.
NotNameMissingOnly(name) == name = Absent

\* !name for a name that is a string or undefined: true when the name is
\* missing and when it is the empty string.
NotName(name) == name \in {Absent, EmptyString}

\* `${prefix}${n}`
DefaultName(prefix, n) == <<prefix>> \o toString(n)

LinkEntry(name, file) == [link |-> [name |-> name, file |-> file]]

MeshEntry(name, file, r) ==
    [link |-> [name |-> name, file |-> file],
     simplify |-> (r # 100),
     simplifyTarget |-> IF r # 100 THEN r ELSE Undefined]

SkinEntry(name, file) ==
    [link |-> [name |-> name, file |-> file], joints |-> <<>>]

VARIABLES
    pc,                 \* the statement the run is at
    json,               \* the glTF document handed to legacyGenerateProject
    ratio,              \* mesh simplification ratio in percent (100 is ratio 1)
    curID,              \* first id of the build
    templateProject,    \* parsed template: the default resources by category
    keepOtherResources,
    project,            \* the project being assembled
    id,                 \* the running id counter
    i,                  \* index of the running for-of loop
    imgDefaultNum, texSources, texCount, matDefaultNum, meshDefaultNum,
    skinDefaultNum, animDefaultNum,
    skinsMap,           \* skin index -> skin id
    jointIdxs,          \* node index -> id of the skin that lists it as a joint
    nodesFlat,          \* node index -> Node
    tree,               \* children of the virtual root, whose id stays null
    orphans,
    stack,              \* the dfs call stack: frames [node, pos]
    written,            \* the project files written by writeProject
    result,             \* the id legacyGenerateProject returns
    error,              \* the exception that ended the run
    tjson,              \* the template project file read by parseTemplateProject
    maxID,              \* parseTemplateProject's maxID
    defaults            \* parseTemplateProject's default resources

\* main
VARIABLES
    mainPc,             \* the statement main is at
    files,              \* what main finds outside: the template project file, a
                        \* folder named "--", the version the editor reports
    argv,               \* process.argv from index 2
    argi,               \* index into argv of the argument loop
    mark,
    models,
    wonderlandArgs,
    reservedIDs,
    templateGiven,      \* templateProject !== null
    templateMinID,
    projectsOnly,
    wantLegacyImport,
    mainCurID,          \* curID of main
    curIDStr,           \* the string curID is when it is no number, else Absent
    neoProject,         \* <<>> while null
    modelIdx,           \* index into models of the loop over the models
    tmpDirs,            \* the temporary folders made
    spawned,            \* the editor processes spawned: their arguments
    returned            \* what legacyLoadGLTF returned: [first, next] per build

\* spawnWLE and the SIGINT handler
VARIABLES
    childProc,          \* the module's childProc: a child process, or Null
    procs,           \* the child processes spawned, each with the done flag
                        \* and the promise of its call of spawnWLE
    tmpDir,             \* the module's tmpDir: Null, or the folder made
    killed,             \* the child processes childProc.kill() was called on
    exited              \* process.exit was called

spawnVars == <<childProc, procs, tmpDir, killed, exited>>

mainVars == <<mainPc, files, argv, argi, mark, models, wonderlandArgs, reservedIDs,
              templateGiven, templateMinID, projectsOnly, wantLegacyImport,
              mainCurID, curIDStr, neoProject, modelIdx, tmpDirs, spawned, returned,
              spawnVars>>

vars == <<pc, json, ratio, curID, templateProject, keepOtherResources, project,
          id, i, imgDefaultNum, texSources, texCount, matDefaultNum,
          meshDefaultNum, skinDefaultNum, animDefaultNum, skinsMap, jointIdxs,
          nodesFlat, tree, orphans, stack, written, result, error,
          tjson, maxID, defaults, mainVars>>

inputVars == <<json, ratio, curID, keepOtherResources>>

counterVars == <<imgDefaultNum, texSources, texCount, matDefaultNum,
                 meshDefaultNum, skinDefaultNum, animDefaultNum>>

skinVars == <<skinsMap, jointIdxs>>

treeVars == <<nodesFlat, tree, orphans, stack>>

outVars == <<written, result, error>>

templateVars == <<tjson, maxID, defaults>>

\* The parameter symlinkRelPath of legacyGenerateProject: main passes the
\* file name of the model.
symlinkRelPath ==
    IF mainPc = "build" THEN At(models, modelIdx).modelFileName ELSE <<"model", ".gltf">>

\* n.toString() for an id n of the running build. curID is a string when
\* main added the numbers to a string; id is that string until the first
\* id++ makes a number of it, so the id allocated first reads as the string.
IdString(n) == IF curIDStr # Absent /\ n = curID THEN curIDStr ELSE toString(n)

(***************************************************************************)
(* generateBaseProject                                                     *)
(***************************************************************************)
\* generateBaseProject that keeps the other resources whatever the flag.
generateBaseProjectKeepAll(template, keep) ==
    [objects    |-> EmptyMap,
     meshes     |-> template.meshes,
     textures   |-> template.textures,
     images     |-> template.images,
     materials  |-> template.materials,
     shaders    |-> template.shaders,
     animations |-> EmptyMap,
     skins      |-> EmptyMap,
     pipelines  |-> template.pipelines,
     files      |-> <<>>]

\* As SharedMaps, with the spread of lines 383-386 left out.
SharedMapsNoSpread(keep) ==
    IF keep THEN {"meshes", "textures", "images", "materials", "shaders", "pipelines"}
    ELSE {"shaders", "pipelines"}

\* The maps of the project that are the template's own objects and no copy:
\* what is stored in them is stored in the template.
SharedMaps(keep) == {"shaders", "pipelines"}

\* The template as it reads once the project holds proj.
Aliased(template, proj, keep) ==
    [cat \in DOMAIN template |->
        IF cat \in SharedMaps(keep) THEN proj[cat] ELSE template[cat]]

generateBaseProject(template, keep) ==
    [objects    |-> EmptyMap,
     meshes     |-> IF keep THEN template.meshes ELSE EmptyMap,
     textures   |-> IF keep THEN template.textures ELSE EmptyMap,
     images     |-> IF keep THEN template.images ELSE EmptyMap,
     materials  |-> IF keep THEN template.materials ELSE EmptyMap,
     shaders    |-> template.shaders,
     animations |-> EmptyMap,
     skins      |-> EmptyMap,
     pipelines  |-> template.pipelines,
     files      |-> <<>>]

(***************************************************************************)
(* legacyGenerateProject: the order of its blocks.                         *)
(***************************************************************************)
\* The order with writeProject called before the animations are added.
PhaseAfterWriteEarly(p) ==
    CASE p = "images"     -> "textures"
      [] p = "textures"   -> "materials"
      [] p = "materials"  -> "meshes"
      [] p = "meshes"     -> "skins"
      [] p = "skins"      -> "nodes"
      [] p = "nodes"      -> "orphans"
      [] p = "orphans"    -> "reverse"
      [] p = "reverse"    -> "dfs"
      [] p = "dfs"        -> "write"
      [] p = "write"      -> "animations"
      [] p = "animations" -> "done"

PhaseAfterObjectsLast(p) ==
    CASE p = "images"     -> "textures"
      [] p = "textures"   -> "materials"
      [] p = "materials"  -> "meshes"
      [] p = "meshes"     -> "skins"
      [] p = "skins"      -> "animations"
      [] p = "animations" -> "nodes"
      [] p = "nodes"      -> "orphans"
      [] p = "orphans"    -> "reverse"
      [] p = "reverse"    -> "dfs"
      [] p = "dfs"        -> "write"
      [] p = "write"      -> "done"

PhaseAfter(p) ==
    CASE p = "images"     -> "textures"
      [] p = "textures"   -> "materials"
      [] p = "materials"  -> "meshes"
      [] p = "meshes"     -> "skins"
      [] p = "skins"      -> "nodes"
      [] p = "nodes"      -> "orphans"
      [] p = "orphans"    -> "reverse"
      [] p = "reverse"    -> "dfs"
      [] p = "dfs"        -> "animations"
      [] p = "animations" -> "write"
      [] p = "write"      -> "done"

\* State of legacyGenerateProject after lines 114-116.
Start(doc, r, cur, template, keep) ==
    /\ pc = "images"
    /\ json = doc
    /\ ratio = r
    /\ curID = cur
    /\ templateProject = template
    /\ keepOtherResources = keep
    /\ project = [generateBaseProject(template, keep)
                    EXCEPT !.files = Append(@, symlinkRelPath)]
    /\ id = cur
    /\ i = 0
    /\ imgDefaultNum = 0
    /\ texSources = {}
    /\ texCount = 0
    /\ matDefaultNum = 0
    /\ meshDefaultNum = 0
    /\ skinDefaultNum = 0
    /\ animDefaultNum = 0
    /\ skinsMap = EmptyMap
    /\ jointIdxs = EmptyMap
    /\ nodesFlat = EmptyMap
    /\ tree = <<>>
    /\ orphans = {}
    /\ stack = <<>>
    /\ written = <<>>
    /\ result = Null
    /\ error = "none"

\* The for-of loop over json[list] has run to its end.
LoopEnd ==
    /\ pc' = PhaseAfter(pc)
    /\ i' = 0
    /\ UNCHANGED <<project, id, counterVars, skinVars>>

\* generate images list
GenImage ==
    /\ pc = "images"
    /\ IF i < Len(json.images)
       THEN LET image == At(json.images, i)
                named == ~NotName(image.name)
                name  == IF named THEN image.name
                         ELSE DefaultName("image_", imgDefaultNum)
            IN  /\ imgDefaultNum' = IF named THEN imgDefaultNum ELSE imgDefaultNum + 1
                /\ project' = [project EXCEPT !.images =
                                  Put(@, IdString(id), LinkEntry(name, symlinkRelPath))]
                /\ id' = id + 1
                /\ i' = i + 1
                /\ UNCHANGED <<pc, texSources, texCount, matDefaultNum, meshDefaultNum,
                               skinDefaultNum, animDefaultNum, skinVars>>
       ELSE LoopEnd
    /\ templateProject' = Aliased(templateProject, project', keepOtherResources)
    /\ UNCHANGED <<inputVars, treeVars, outVars, templateVars, mainVars>>

\* The check of texSources left out.
TextureIsNewAlways(sources, texture) == TRUE

\* !texSources.has(texture.source)
TextureIsNew(sources, texture) == texture.source \notin sources

\* generate textures list
GenTexture ==
    /\ pc = "textures"
    /\ IF i < Len(json.textures)
       THEN LET texture == At(json.textures, i)
            IN  /\ IF TextureIsNew(texSources, texture)
                   THEN /\ project' = [project EXCEPT !.textures =
                                         Put(@, IdString(id),
                                             LinkEntry(DefaultName("texture_", texCount),
                                                       symlinkRelPath))]
                        /\ id' = id + 1
                        /\ texSources' = texSources \cup {texture.source}
                   ELSE UNCHANGED <<project, id, texSources>>
                /\ texCount' = texCount + 1
                /\ i' = i + 1
                /\ UNCHANGED <<pc, imgDefaultNum, matDefaultNum, meshDefaultNum,
                               skinDefaultNum, animDefaultNum, skinVars>>
       ELSE LoopEnd
    /\ templateProject' = Aliased(templateProject, project', keepOtherResources)
    /\ UNCHANGED <<inputVars, treeVars, outVars, templateVars, mainVars>>

\* generate materials list
GenMaterial ==
    /\ pc = "materials"
    /\ IF i < Len(json.materials)
       THEN LET material == At(json.materials, i)
                named == ~NotName(material.name)
                name  == IF named THEN material.name
                         ELSE DefaultName("material_", matDefaultNum)
            IN  /\ matDefaultNum' = IF named THEN matDefaultNum ELSE matDefaultNum + 1
                /\ project' = [project EXCEPT !.materials =
                                  Put(@, IdString(id), LinkEntry(name, symlinkRelPath))]
                /\ id' = id + 1
                /\ i' = i + 1
                /\ UNCHANGED <<pc, imgDefaultNum, texSources, texCount, meshDefaultNum,
                               skinDefaultNum, animDefaultNum, skinVars>>
       ELSE LoopEnd
    /\ templateProject' = Aliased(templateProject, project', keepOtherResources)
    /\ UNCHANGED <<inputVars, treeVars, outVars, templateVars, mainVars>>

\* generate meshes list
GenMesh ==
    /\ pc = "meshes"
    /\ IF i < Len(json.meshes)
       THEN LET mesh  == At(json.meshes, i)
                named == ~NotName(mesh.name)
                name  == IF named THEN mesh.name
                         ELSE DefaultName("mesh_", meshDefaultNum)
            IN  /\ meshDefaultNum' = IF named THEN meshDefaultNum ELSE meshDefaultNum + 1
                /\ project' = [project EXCEPT !.meshes =
                                  Put(@, IdString(id), MeshEntry(name, symlinkRelPath, ratio))]
                /\ id' = id + 1
                /\ i' = i + 1
                /\ UNCHANGED <<pc, imgDefaultNum, texSources, texCount, matDefaultNum,
                               skinDefaultNum, animDefaultNum, skinVars>>
       ELSE LoopEnd
    /\ templateProject' = Aliased(templateProject, project', keepOtherResources)
    /\ UNCHANGED <<inputVars, treeVars, outVars, templateVars, mainVars>>

\* jointIdxs after `for (const jointIdx of skin.joints) jointIdxs.set(jointIdx, id)`
RECURSIVE SetJoints(_, _, _)
SetJoints(map, joints, skin) ==
    IF joints = <<>> THEN map
    ELSE SetJoints(Put(map, Head(joints), skin), Tail(joints), skin)

\* generate skins
GenSkin ==
    /\ pc = "skins"
    /\ IF i < Len(json.skins)
       THEN LET skin  == At(json.skins, i)
                named == ~NotName(skin.name)
                name  == IF named THEN skin.name
                         ELSE DefaultName("skin_", skinDefaultNum)
            IN  /\ skinDefaultNum' = IF named THEN skinDefaultNum ELSE skinDefaultNum + 1
                /\ project' = [project EXCEPT !.skins =
                                  Put(@, IdString(id), SkinEntry(name, symlinkRelPath))]
                /\ jointIdxs' = SetJoints(jointIdxs, skin.joints, id)
                /\ skinsMap' = Put(skinsMap, i, id)
                /\ id' = id + 1
                /\ i' = i + 1
                /\ UNCHANGED <<pc, imgDefaultNum, texSources, texCount, matDefaultNum,
                               meshDefaultNum, animDefaultNum>>
       ELSE LoopEnd
    /\ templateProject' = Aliased(templateProject, project', keepOtherResources)
    /\ UNCHANGED <<inputVars, treeVars, outVars, templateVars, mainVars>>

(***************************************************************************)
(* class Node                                                              *)
(***************************************************************************)
\* new Node()
NewNode ==
    [children |-> <<>>, parent |-> Null, name |-> NullStr, path |-> NullStr,
     id |-> Null, meshSkin |-> Null, skin |-> Null]

\* this.children of a node, the virtual root included.
ChildrenOf(nodes, root, n) == IF n = Root THEN root ELSE nodes[n].children

\* this.id of a node; the virtual root is never given one.
IdOf(nodes, n) == IF n = Root THEN Null ELSE nodes[n].id

\* Array.prototype.indexOf, 0-based, -1 when absent.
indexOf(seq, x) ==
    IF \E k \in 1..Len(seq) : seq[k] = x
    THEN (CHOOSE k \in 1..Len(seq) : seq[k] = x /\ \A j \in 1..(k - 1) : seq[j] # x) - 1
    ELSE -1

\* setParent that forgets parent.children.push(this).
setParentNoPush(nodes, child, parent) ==
    [nodes EXCEPT ![child].parent = parent]

\* child.setParent(parent) for a parent that is a node.
setParent(nodes, child, parent) ==
    [[nodes EXCEPT ![child].parent = parent]
        EXCEPT ![parent].children = Append(@, child)]

RECURSIVE SetParents(_, _, _)
SetParents(nodes, children, parent) ==
    IF children = <<>> THEN nodes
    ELSE SetParents(setParent(nodes, Head(children), parent), Tail(children), parent)

RECURSIVE SetParentOfAll(_, _, _)
SetParentOfAll(nodes, children, parent) ==
    IF children = <<>> THEN nodes
    ELSE SetParentOfAll([nodes EXCEPT ![Head(children)].parent = parent],
                        Tail(children), parent)

\* The exchange written as two assignments in a row: both nodes end with the
\* children of second.
ReversePairOverwrite(nodes, first, second) ==
    LET a == SetParentOfAll(nodes, nodes[first].children, second)
        b == SetParentOfAll(a, a[second].children, first)
    IN  [b EXCEPT ![first].children = b[second].children]

\* The exchange of the two children lists without the two loops that hand
\* the children their new parent.
ReversePairKeepParents(nodes, first, second) ==
    [nodes EXCEPT ![first].children = nodes[second].children,
                  ![second].children = nodes[first].children]

\* One round of the loop of Node.reverse on the pair (first, second).
ReversePair(nodes, first, second) ==
    LET a == SetParentOfAll(nodes, nodes[first].children, second)
        b == SetParentOfAll(a, a[second].children, first)
    IN  [b EXCEPT ![first].children = b[second].children,
                  ![second].children = b[first].children]

RECURSIVE ReverseFrom(_, _, _)
ReverseFrom(nodes, root, k) ==
    IF k < Len(root) \div 2
    THEN ReverseFrom(ReversePair(nodes, At(root, k), At(root, Len(root) - k - 1)),
                     root, k + 1)
    ELSE nodes

\* tree.reverse() with the loop `for(const child of this.children)
\* child.reverse()` that the source keeps as a comment.
RECURSIVE ReverseEach(_, _)
ReverseEach(nodes, cs) ==
    IF cs = <<>> THEN nodes
    ELSE ReverseEach(ReverseFrom(nodes, nodes[Head(cs)].children, 0), Tail(cs))

reverseTwoLevels(nodes, root) == ReverseEach(ReverseFrom(nodes, root, 0), root)

\* tree.reverse() left out.
reverseNothing(nodes, root) == nodes

\* tree.reverse(): the nodes afterwards. The root's own child list is not
\* assigned.
reverse(nodes, root) == ReverseFrom(nodes, root, 0)

\* A path getter that stops at the name of the node itself.
GetPathLocal(nodes, root, n, seen) ==
    LET childNumber == indexOf(ChildrenOf(nodes, root, nodes[n].parent), n)
        name == IF nodes[n].name = NullStr
                THEN DefaultName("object_", IF childNumber < 0 THEN 0 ELSE childNumber)
                ELSE nodes[n].name
    IN  [thrown |-> "none", nodes |-> [nodes EXCEPT ![n].path = name], path |-> name]

\* The path getter of node n, entered from the getters of the nodes in seen:
\* [thrown, nodes, path]. thrown is "Error" when it throws 'Node not present
\* in parent', "RangeError" when the getters call each other without end, and
\* "none" when it returns path.
RECURSIVE GetPath(_, _, _, _)
GetPath(nodes, root, n, seen) ==
    IF n = Root THEN [thrown |-> "none", nodes |-> nodes, path |-> <<>>]
    ELSE IF nodes[n].path # NullStr
    THEN [thrown |-> "none", nodes |-> nodes, path |-> nodes[n].path]
    ELSE IF n \in seen
    THEN [thrown |-> "RangeError", nodes |-> nodes, path |-> NullStr]
    ELSE LET parent == nodes[n].parent
             childNumber == indexOf(ChildrenOf(nodes, root, parent), n)
             unnamed == nodes[n].name = NullStr
             name == IF unnamed THEN DefaultName("object_", childNumber)
                     ELSE nodes[n].name
         IN  IF unnamed /\ childNumber < 0
             THEN [thrown |-> "Error", nodes |-> nodes, path |-> NullStr]
             ELSE IF IdOf(nodes, parent) = Null
             THEN [thrown |-> "none",
                   nodes |-> [nodes EXCEPT ![n].path = name],
                   path |-> name]
             ELSE LET up == GetPath(nodes, root, parent, seen \cup {n})
                      full == name \o <<"<">> \o up.path
                  IN  IF up.thrown = "none"
                      THEN [thrown |-> "none",
                            nodes |-> [up.nodes EXCEPT ![n].path = full],
                            path |-> full]
                      ELSE up

\* Node.toJson that never sets object.parent.
ObjectEntryNoParent(nodes, n, name, file) ==
    [link |-> [name |-> name, file |-> file],
     parent |-> Absent,
     skin |-> IF nodes[n].skin # Null THEN IdString(nodes[n].skin) ELSE Absent,
     components |-> IF nodes[n].meshSkin # Null
                    THEN <<[mesh |-> [skin |-> IdString(nodes[n].meshSkin)]]>>
                    ELSE <<>>]

\* Node.toJson without the link name.
ObjectEntry(nodes, n, name, file) ==
    [link |-> [name |-> name, file |-> file],
     parent |-> IF IdOf(nodes, nodes[n].parent) # Null
                THEN IdString(IdOf(nodes, nodes[n].parent)) ELSE Absent,
     skin |-> IF nodes[n].skin # Null THEN IdString(nodes[n].skin) ELSE Absent,
     components |-> IF nodes[n].meshSkin # Null
                    THEN <<[mesh |-> [skin |-> IdString(nodes[n].meshSkin)]]>>
                    ELSE <<>>]

(***************************************************************************)
(* legacyGenerateProject: the scene objects tree                           *)
(***************************************************************************)
\* The child indices up to the first that names no node.
RECURSIVE ValidPrefix(_, _)
ValidPrefix(children, idxs) ==
    IF children = <<>> \/ Head(children) \notin idxs THEN <<>>
    ELSE <<Head(children)>> \o ValidPrefix(Tail(children), idxs)

\* One round of `for (const nodeObj of json.nodes)`; the first round also
\* allocates nodesFlat and orphans.
BuildNode ==
    /\ pc = "nodes"
    /\ LET nodeCount == Len(json.nodes)
           idxs == 0..(nodeCount - 1)
           flat == IF i = 0 THEN [k \in idxs |-> NewNode] ELSE nodesFlat
           orph == IF i = 0 THEN idxs ELSE orphans
       IN  IF i < nodeCount
           THEN LET nodeObj == At(json.nodes, i)
                    known == ValidPrefix(nodeObj.children, idxs)
                    a == IF nodeObj.name # Absent
                         THEN [flat EXCEPT ![i].name = nodeObj.name] ELSE flat
                    b == SetParents(a, known, i)
                    c == IF nodeObj.skin # Undefined
                         THEN [b EXCEPT ![i].meshSkin = Get(skinsMap, nodeObj.skin)]
                         ELSE b
                    skinID == Get(jointIdxs, i)
                    d == IF skinID # Undefined
                         THEN [c EXCEPT ![i].skin = skinID] ELSE c
                IN  IF known # nodeObj.children
                    THEN \* nodesFlat[childIdx] is undefined: setParent throws
                         /\ nodesFlat' = b
                         /\ orphans' = orph \ Range(known)
                         /\ error' = "TypeError"
                         /\ pc' = "failed"
                         /\ UNCHANGED i
                    ELSE /\ nodesFlat' = d
                         /\ orphans' = orph \ Range(nodeObj.children)
                         /\ i' = i + 1
                         /\ UNCHANGED <<pc, error>>
           ELSE /\ nodesFlat' = flat
                /\ orphans' = orph
                /\ pc' = PhaseAfter(pc)
                /\ i' = 0
                /\ UNCHANGED error
    /\ UNCHANGED <<inputVars, templateProject, project, id, counterVars, skinVars, tree, stack,
                   written, result, templateVars, mainVars>>

\* The elements of a set of numbers in ascending order.
Ascending(S) ==
    [k \in 1..Cardinality(S) |->
        CHOOSE x \in S : Cardinality({y \in S : y < x}) = k - 1]

\* Array.from(orphans) followed by orphansOrdered.sort()
OrphansOrdered(S) == SortDefault(S)

\* The orphans become the children of the virtual root.
AttachOrphans ==
    /\ pc = "orphans"
    /\ LET orphansOrdered == OrphansOrdered(orphans)
       IN  /\ tree' = orphansOrdered
           /\ nodesFlat' = SetParentOfAll(nodesFlat, orphansOrdered, Root)
    /\ pc' = PhaseAfter(pc)
    /\ UNCHANGED <<inputVars, templateProject, project, id, i, counterVars, skinVars, orphans, stack,
                   outVars, templateVars, mainVars>>

\* Return from every dfs call whose for-of loop has run to its end.
RECURSIVE Unwind(_, _, _)
Unwind(nodes, root, frames) ==
    IF frames = <<>> THEN frames
    ELSE LET top == frames[Len(frames)]
         IN  IF top.pos < Len(ChildrenOf(nodes, root, top.node)) THEN frames
             ELSE Unwind(nodes, root, SubSeq(frames, 1, Len(frames) - 1))

\* tree.reverse(), then the call tree.dfs(...)
Reverse ==
    /\ pc = "reverse"
    /\ nodesFlat' = reverse(nodesFlat, tree)
    /\ stack' = Unwind(nodesFlat', tree, <<[node |-> Root, pos |-> 0]>>)
    /\ pc' = PhaseAfter(pc)
    /\ UNCHANGED <<inputVars, templateProject, project, id, i, counterVars, skinVars, tree, orphans,
                   outVars, templateVars, mainVars>>

\* The dfs call stack when the call on the top has run callback(child) and
\* calls child.dfs(callback), with the children waiting below their parent's
\* remaining siblings.
DescendLater(frames, child) ==
    <<[node |-> child, pos |-> 0]>> \o [frames EXCEPT ![Len(frames)].pos = @ + 1]

\* The dfs call stack when the call on the top has run callback(child) and
\* calls child.dfs(callback).
Descend(frames, child) ==
    Append([frames EXCEPT ![Len(frames)].pos = @ + 1], [node |-> child, pos |-> 0])

\* The joints array of the skin with this id, one id pushed.
PushJoint(skins, skin, idStr) ==
    [skins EXCEPT ![IdString(skin)].joints = Append(@, idStr)]

\* One round of the for-of loop of the running dfs call: callback(child), then
\* child.dfs(callback) up to its first callback.
DfsVisit ==
    /\ pc = "dfs"
    /\ stack # <<>>
    /\ LET top    == stack[Len(stack)]
           child  == At(ChildrenOf(nodesFlat, tree, top.node), top.pos)
           a      == [nodesFlat EXCEPT ![child].id = id]
           skins  == IF a[child].skin # Null
                     THEN PushJoint(project.skins, a[child].skin, IdString(id))
                     ELSE project.skins
           got    == GetPath(a, tree, child, {})
           frames == Descend(stack, child)
       IN  IF got.thrown # "none" \/ a[child].meshSkin = Undefined
           THEN \* the path getter or undefined.toString() throws in toJson
                /\ nodesFlat' = got.nodes
                /\ project' = [project EXCEPT !.skins = skins]
                /\ error' = IF got.thrown = "none" THEN "TypeError" ELSE got.thrown
                /\ pc' = "failed"
                /\ UNCHANGED <<id, stack>>
           ELSE /\ nodesFlat' = got.nodes
                /\ project' = [project EXCEPT
                                 !.skins = skins,
                                 !.objects = Put(@, IdString(id),
                                                 ObjectEntry(got.nodes, child, got.path,
                                                             symlinkRelPath))]
                /\ id' = id + 1
                /\ IF Len(frames) > StackLimit
                   THEN \* the call stack is exhausted
                        /\ error' = "RangeError"
                        /\ pc' = "failed"
                        /\ UNCHANGED stack
                   ELSE /\ stack' = Unwind(got.nodes, tree, frames)
                        /\ UNCHANGED <<error, pc>>
    /\ templateProject' = Aliased(templateProject, project', keepOtherResources)
    /\ UNCHANGED <<inputVars, i, counterVars, skinVars, tree, orphans,
                   written, result, templateVars, mainVars>>

\* tree.dfs(...) has returned.
DfsEnd ==
    /\ pc = "dfs"
    /\ stack = <<>>
    /\ pc' = PhaseAfter(pc)
    /\ UNCHANGED <<inputVars, templateProject, project, id, i, counterVars, skinVars, treeVars,
                   outVars, templateVars, mainVars>>

\* The loop over the animations without the id++ that ends a round.
GenAnimationNoAdvance ==
    /\ pc = "animations"
    /\ IF i < Len(json.animations)
       THEN LET animation == At(json.animations, i)
                named == ~NotName(animation.name)
                name  == IF named THEN animation.name
                         ELSE DefaultName("animation_", animDefaultNum)
            IN  /\ animDefaultNum' = IF named THEN animDefaultNum ELSE animDefaultNum + 1
                /\ project' = [project EXCEPT !.animations =
                                  Put(@, IdString(id), LinkEntry(name, symlinkRelPath))]
                /\ id' = id
                /\ i' = i + 1
                /\ UNCHANGED <<pc, imgDefaultNum, texSources, texCount, matDefaultNum,
                               meshDefaultNum, skinDefaultNum, skinVars>>
       ELSE LoopEnd
    /\ templateProject' = Aliased(templateProject, project', keepOtherResources)
    /\ UNCHANGED <<inputVars, treeVars, outVars, templateVars, mainVars>>

\* generate animations list
GenAnimation ==
    /\ pc = "animations"
    /\ IF i < Len(json.animations)
       THEN LET animation == At(json.animations, i)
                named == ~NotName(animation.name)
                name  == IF named THEN animation.name
                         ELSE DefaultName("animation_", animDefaultNum)
            IN  /\ animDefaultNum' = IF named THEN animDefaultNum ELSE animDefaultNum + 1
                /\ project' = [project EXCEPT !.animations =
                                  Put(@, IdString(id), LinkEntry(name, symlinkRelPath))]
                /\ id' = id + 1
                /\ i' = i + 1
                /\ UNCHANGED <<pc, imgDefaultNum, texSources, texCount, matDefaultNum,
                               meshDefaultNum, skinDefaultNum, skinVars>>
       ELSE LoopEnd
    /\ templateProject' = Aliased(templateProject, project', keepOtherResources)
    /\ UNCHANGED <<inputVars, treeVars, outVars, templateVars, mainVars>>

\* writeProject(project, ...) and the return of [projectPath, id]
WriteProject ==
    /\ pc = "write"
    /\ written' = Append(written, project)
    /\ result' = id
    /\ pc' = PhaseAfter(pc)
    /\ UNCHANGED <<inputVars, templateProject, project, id, i, counterVars, skinVars, treeVars,
                   error, templateVars, mainVars>>

\* The id counter left by the call before.
IdAtEntryKept(cur) == id

\* let id = curID
IdAtEntry(cur) == cur

\* legacyGenerateProject has returned and is called again with the arguments
\* of the call before: lines 114-116 and the declarations of its locals.
Rerun ==
    /\ pc = "done"
    /\ Len(written) < MaxRuns
    /\ returned' = Append(returned, [first |-> curID, next |-> result])
    /\ pc' = "images"
    /\ project' = [generateBaseProject(templateProject, keepOtherResources)
                     EXCEPT !.files = Append(@, symlinkRelPath)]
    /\ id' = IdAtEntry(curID)
    /\ i' = 0
    /\ imgDefaultNum' = 0
    /\ texSources' = {}
    /\ texCount' = 0
    /\ matDefaultNum' = 0
    /\ meshDefaultNum' = 0
    /\ skinDefaultNum' = 0
    /\ animDefaultNum' = 0
    /\ skinsMap' = EmptyMap
    /\ jointIdxs' = EmptyMap
    /\ nodesFlat' = EmptyMap
    /\ tree' = <<>>
    /\ orphans' = {}
    /\ stack' = <<>>
    /\ result' = Null
    /\ UNCHANGED <<inputVars, templateProject, written, error, templateVars,
                   mainPc, files, argv, argi, mark, models, wonderlandArgs,
                   reservedIDs, templateGiven, templateMinID, projectsOnly,
                   wantLegacyImport, mainCurID, curIDStr, neoProject, modelIdx,
                   tmpDirs, spawned, spawnVars>>

(***************************************************************************)
(* parseTemplateProject                                                    *)
(***************************************************************************)
getMaxId(newIDStr, maxId) ==
    LET idNum == Number(newIDStr)
    IN  IF isNaN(idNum) \/ LessEq(idNum, ToNumber(maxId)) THEN maxId
        ELSE JSNumber(idNum)

\* maybeAddDefaultObj without the test of link.file.
maybeAddDefaultObjAlways(outList, idStr, obj) ==
    Put(outList, idStr, [link |-> obj.link])

\* typeof obj.link is 'object' for a link that is null as well; obj.link.file
\* then throws, which ParseEntries accounts for.
maybeAddDefaultObj(outList, idStr, obj) ==
    IF obj.linkIs = "object" /\ obj.link.file = <<"default">>
    THEN Put(outList, idStr, [link |-> obj.link])
    ELSE outList

TemplateCategories ==
    <<"objects", "meshes", "textures", "images", "materials", "shaders",
      "animations", "skins", "pipelines">>

DefaultCategories ==
    {"meshes", "textures", "images", "materials", "shaders", "pipelines"}

\* The call of getMaxId in the loop over category cat: the loops over
\* animations and skins pass (id, id, maxID), and getMaxId takes two
\* parameters.
MaxIdOfEntryKeepingArgs(cat, idStr, max) == getMaxId(idStr, max)

MaxIdOfEntry(cat, idStr, max) ==
    IF cat \in {"animations", "skins"}
    THEN getMaxId(idStr, JSString(idStr))
    ELSE getMaxId(idStr, max)

\* The loop `for (const [id, obj] of Object.entries(json[cat]))`:
\* [thrown, maxID, list] after it. typeof null is 'object', so an entry whose
\* link is null throws at obj.link.file.
RECURSIVE ParseEntries(_, _, _, _)
ParseEntries(cat, entries, max, outList) ==
    IF entries = <<>> THEN [thrown |-> "none", maxID |-> max, list |-> outList]
    ELSE LET e == Head(entries)
             newMax == MaxIdOfEntry(cat, e.key, max)
         IN  IF cat \in DefaultCategories /\ e.obj.linkIs = "null"
             THEN [thrown |-> "TypeError", maxID |-> newMax, list |-> outList]
             ELSE ParseEntries(cat, Tail(entries), newMax,
                               IF cat \in DefaultCategories
                               THEN maybeAddDefaultObj(outList, e.key, e.obj)
                               ELSE outList)

NoDefaults ==
    [meshes |-> EmptyMap, textures |-> EmptyMap, images |-> EmptyMap,
     materials |-> EmptyMap, shaders |-> EmptyMap, pipelines |-> EmptyMap]

\* One of the nine blocks of parseTemplateProject, in their order.
ParseCategory ==
    /\ pc = "parse"
    /\ LET cat == TemplateCategories[i + 1]
           got == ParseEntries(cat, tjson[cat], maxID,
                               IF cat \in DefaultCategories THEN defaults[cat]
                               ELSE EmptyMap)
       IN  /\ maxID' = got.maxID
           /\ defaults' = IF cat \in DefaultCategories
                          THEN [defaults EXCEPT ![cat] = got.list]
                          ELSE defaults
           /\ error' = got.thrown
           /\ pc' = IF got.thrown # "none" THEN "failed"
                    ELSE IF i + 1 = Len(TemplateCategories) THEN "parsed"
                    ELSE "parse"
    /\ i' = i + 1
    /\ UNCHANGED <<inputVars, templateProject, project, id, counterVars, skinVars, treeVars,
                   written, result, tjson, mainVars>>

\* parseTemplateProject from block k on: [thrown, template, maxID].
RECURSIVE ParseFrom(_, _, _, _)
ParseFrom(content, k, max, lists) ==
    IF k > Len(TemplateCategories)
    THEN [thrown |-> "none", template |-> lists, maxID |-> max]
    ELSE LET cat == TemplateCategories[k]
             got == ParseEntries(cat, content[cat], max,
                                 IF cat \in DefaultCategories THEN lists[cat]
                                 ELSE EmptyMap)
         IN  IF got.thrown # "none"
             THEN [thrown |-> got.thrown, template |-> lists, maxID |-> got.maxID]
             ELSE ParseFrom(content, k + 1, got.maxID,
                            IF cat \in DefaultCategories
                            THEN [lists EXCEPT ![cat] = got.list] ELSE lists)

\* As parseTemplateProject, but a file that cannot be read or parsed counts
\* as a project file without entries.
parseTemplateProjectLenient(file) ==
    IF file.state = "json" /\ ParseFrom(file.json, 1, JSNumber(0), NoDefaults).thrown = "none"
    THEN ParseFrom(file.json, 1, JSNumber(0), NoDefaults)
    ELSE [thrown |-> "none", template |-> NoDefaults, maxID |-> JSNumber(0)]

\* parseTemplateProject(projectPath) on the file at projectPath:
\* fs.readFileSync throws when there is none, JSON.parse when it holds no JSON.
parseTemplateProject(file) ==
    IF file.state = "missing"
    THEN [thrown |-> "ENOENT", template |-> NoDefaults, maxID |-> JSNumber(0)]
    ELSE IF file.state = "malformed"
    THEN [thrown |-> "SyntaxError", template |-> NoDefaults, maxID |-> JSNumber(0)]
    ELSE ParseFrom(file.json, 1, JSNumber(0), NoDefaults)

(***************************************************************************)
(* main: the argument loop                                                 *)
(***************************************************************************)
\* An argument is a string: the sequence of its tokens.
Mark == <<"--">>

\* v.toString() of a number or string
Text(v) == IF v.t = "number" THEN toString(v.n) ELSE v.s

\* a + b on numbers and strings
JSAdd(a, b) ==
    IF a.t = "number" /\ b.t = "number" THEN JSNumber(a.n + b.n)
    ELSE JSString(Text(a) \o Text(b))

\* The greater of the two ids, plus one.
FirstIDMax(reserved, minID) ==
    IF ToNumber(minID) < reserved THEN JSNumber(reserved + 1)
    ELSE JSNumber(ToNumber(minID) + 1)

\* let curID = reservedIDs + templateMinID + 1
FirstID(reserved, minID) == JSAdd(JSAdd(JSNumber(reserved), minID), JSNumber(1))

\* fs.existsSync(modelPath): the model files and, when there is one, the
\* folder named "--".
ExistsSync(fsys, path) ==
    path \in DOMAIN fsys.gltf \/ (path = Mark /\ fsys.dashIsDir)

\* path.extname of a file name
extname(name) ==
    IF name # <<>> /\ name[Len(name)] \in {".gltf", ".glb", ".wlp"}
    THEN name[Len(name)] ELSE ""

\* addInputModel(models, modelPath, ratio): [thrown, models]
addInputModel(list, modelPath) ==
    LET modelExt == extname(modelPath)
        withExt  == SubSeq(modelPath, 1, Len(modelPath) - 1)
        legacy   == withExt # <<>> /\ withExt[Len(withExt)] = ".legacy"
        baseFileName == IF legacy THEN SubSeq(withExt, 1, Len(withExt) - 1) ELSE withExt
        outputName == baseFileName \o <<".bin">>
    IN  IF modelExt \notin {".gltf", ".glb"}
        THEN [thrown |-> "UserError", models |-> list]
        ELSE IF \E k \in 1..Len(list) : list[k].outputName = outputName
        THEN [thrown |-> "UsageError", models |-> list]
        ELSE [thrown |-> "none",
              models |-> Append(list, [modelPath |-> modelPath,
                                       modelFileName |-> modelPath,
                                       outputName |-> outputName,
                                       legacyImport |-> legacy])]

\* What the arguments have set: the state of main in the argument loop.
\* reservedIDs is Null while null.
ArgState ==
    [thrown |-> "none", argi |-> argi, mark |-> mark, models |-> models,
     wonderlandArgs |-> wonderlandArgs, reservedIDs |-> reservedIDs,
     templateGiven |-> templateGiven, templateProject |-> templateProject,
     templateMinID |-> templateMinID, projectsOnly |-> projectsOnly,
     wantLegacyImport |-> wantLegacyImport,
     keepOtherResources |-> keepOtherResources]

Throw(st, name) == [st EXCEPT !.thrown = name]

\* One round of `for (let i = 2; i < process.argv.length; i++)` on the
\* arguments args, for the options --projects-only, --keep-other-resources,
\* --legacy-import, --reserve-ids and --template-project-path and for model
\* arguments without a simplification target.
parseArgument(st, args, fsys) ==
    LET arg  == At(args, st.argi)
        more == st.argi + 1 < Len(args)
        val  == At(args, st.argi + 1)
        step == [st EXCEPT !.argi = @ + 1]
    IN  IF st.mark = 0
        THEN CASE arg = Mark -> [step EXCEPT !.mark = 1]
               [] arg = <<"--projects-only">> -> [step EXCEPT !.projectsOnly = TRUE]
               [] arg = <<"--keep-other-resources">> ->
                    [step EXCEPT !.keepOtherResources = TRUE]
               [] arg = <<"--legacy-import">> -> [step EXCEPT !.wantLegacyImport = TRUE]
               [] arg = <<"--reserve-ids">> ->
                    IF ~more \/ st.reservedIDs # Null THEN Throw(st, "UsageError")
                    ELSE IF isNaN(Number(val)) \/ Number(val) < 0
                    THEN Throw(st, "UsageError")
                    ELSE [st EXCEPT !.argi = @ + 2, !.reservedIDs = Number(val)]
               [] arg = <<"--template-project-path">> ->
                    IF ~more \/ st.templateGiven THEN Throw(st, "UsageError")
                    ELSE LET got == parseTemplateProject(fsys.template)
                         IN  IF got.thrown # "none" THEN Throw(st, got.thrown)
                             ELSE [st EXCEPT !.argi = @ + 2,
                                             !.templateGiven = TRUE,
                                             !.templateProject = got.template,
                                             !.templateMinID = got.maxID]
               [] OTHER -> Throw(st, "UsageError")
        ELSE IF st.mark = 1
        THEN IF ~ExistsSync(fsys, arg) THEN Throw(st, "UserError")
             ELSE IF arg \in DOMAIN fsys.gltf
             THEN LET got == addInputModel(st.models, arg)
                  IN  IF got.thrown # "none" THEN Throw(st, got.thrown)
                      ELSE [step EXCEPT !.models = got.models]
             ELSE step     \* a folder without model files
        ELSE [step EXCEPT !.wonderlandArgs = Append(@, arg)]

\* One round of the argument loop.
ParseArg ==
    /\ mainPc = "args"
    /\ argi < Len(argv)
    /\ LET st == parseArgument(ArgState, argv, files)
       IN  /\ argi' = st.argi
           /\ mark' = st.mark
           /\ models' = st.models
           /\ wonderlandArgs' = st.wonderlandArgs
           /\ reservedIDs' = st.reservedIDs
           /\ templateGiven' = st.templateGiven
           /\ templateProject' = st.templateProject
           /\ templateMinID' = st.templateMinID
           /\ projectsOnly' = st.projectsOnly
           /\ wantLegacyImport' = st.wantLegacyImport
           /\ keepOtherResources' = st.keepOtherResources
           /\ error' = st.thrown
           /\ mainPc' = IF st.thrown # "none" THEN "failed" ELSE "args"
    /\ UNCHANGED <<pc, json, ratio, curID, project, id, i, counterVars, skinVars,
                   treeVars, written, result, templateVars, files, argv, mainCurID,
                   curIDStr, neoProject, modelIdx, tmpDirs, spawned, returned, spawnVars>>

(***************************************************************************)
(* main: from the argument loop to the loop over the models                *)
(***************************************************************************)
TemplateMinID == 28

\* The built-in template of main, abridged to one entry per kind of key.
builtinTemplate ==
    [meshes    |-> (<<"p0">> :> LinkEntry(<<"PrimitivePlane">>, <<"default">>)),
     textures  |-> EmptyMap,
     images    |-> EmptyMap,
     materials |-> EmptyMap,
     shaders   |-> (<<"1">> :> LinkEntry(<<"Flat">>, <<"default">>)),
     pipelines |-> (<<"3">> :> LinkEntry(<<"Flat">>, <<"default">>))
                   @@ (<<"2", "8">> :> LinkEntry(<<"Sky">>, <<"default">>))]

\* The test of the version with the legacy import from 0.9.4 on.
NeedsLegacyImportFrom094(version) ==
    ~(version[1] = 0 /\ (version[2] < 9 \/ (version[2] = 9 /\ version[3] < 4)))

\* version[0] === 0 && (version[1] < 9 || (version[1] === 9 && version[2] < 4))
NeedsLegacyImport(version) ==
    version[1] = 0 /\ (version[2] < 9 \/ (version[2] = 9 /\ version[3] < 4))

\* Lines 975-1253. The working directory holds no model.gltf and no
\* model.glb; no --version is given, so detectVersion asks the editor.
ArgsDone ==
    /\ mainPc = "args"
    /\ argi = Len(argv)
    /\ LET reserved == IF reservedIDs = Null THEN 0 ELSE reservedIDs
           minID    == IF templateGiven THEN templateMinID ELSE JSNumber(TemplateMinID)
       IN  /\ reservedIDs' = reserved
           /\ templateProject' = IF templateGiven THEN templateProject ELSE builtinTemplate
           /\ templateMinID' = minID
           /\ templateGiven' = TRUE
           /\ mainCurID' = FirstID(reserved, minID)
           /\ IF models = <<>>
              THEN /\ error' = "UserError"
                   /\ mainPc' = "failed"
                   /\ UNCHANGED <<spawned, wantLegacyImport>>
              ELSE /\ spawned' = Append(spawned, [run |-> "help", args |-> <<>>])
                   /\ wantLegacyImport' = (wantLegacyImport
                                           \/ NeedsLegacyImport(files.version)
                                           \/ reserved # 0)
                   /\ mainPc' = "loop"
                   /\ UNCHANGED error
    /\ UNCHANGED <<pc, json, ratio, curID, keepOtherResources, project, id, i,
                   counterVars, skinVars, treeVars, written, result, templateVars,
                   files, argv, argi, mark, models, wonderlandArgs, projectsOnly,
                   curIDStr, neoProject, modelIdx, tmpDirs, returned, spawnVars>>

\* One round of the loop over the models up to the call of legacyCompileModel
\* or compileModel. With the legacy import the round goes on in
\* legacyGenerateProject; else compileModel runs to its end with it.
BeginModel ==
    /\ mainPc = "loop"
    /\ modelIdx < Len(models)
    /\ LET model == At(models, modelIdx)
           legacyImport == model.legacyImport \/ wantLegacyImport
           neo == IF ~legacyImport /\ neoProject = <<>>
                  THEN <<generateBaseProject(templateProject, keepOtherResources)>>
                  ELSE neoProject
       IN  /\ neoProject' = neo
           /\ tmpDirs' = IF projectsOnly THEN tmpDirs ELSE tmpDirs + 1
           /\ ratio' = 100
           /\ IF legacyImport
              THEN /\ mainPc' = "build"
                   /\ pc' = "images"
                   /\ json' = files.gltf[model.modelPath]
                   /\ curID' = ToNumber(mainCurID)
                   /\ curIDStr' = IF mainCurID.t = "string" THEN mainCurID.s ELSE Absent
                   /\ project' = [generateBaseProject(templateProject, keepOtherResources)
                                    EXCEPT !.files = Append(@, model.modelFileName)]
                   /\ id' = ToNumber(mainCurID)
                   /\ i' = 0
                   /\ imgDefaultNum' = 0
                   /\ texSources' = {}
                   /\ texCount' = 0
                   /\ matDefaultNum' = 0
                   /\ meshDefaultNum' = 0
                   /\ skinDefaultNum' = 0
                   /\ animDefaultNum' = 0
                   /\ skinsMap' = EmptyMap
                   /\ jointIdxs' = EmptyMap
                   /\ nodesFlat' = EmptyMap
                   /\ tree' = <<>>
                   /\ orphans' = {}
                   /\ stack' = <<>>
                   /\ result' = Null
                   /\ UNCHANGED <<written, spawned, modelIdx>>
              ELSE /\ written' = Append(written, neo[1])
                   /\ spawned' = IF projectsOnly THEN spawned
                                 ELSE Append(spawned, [run |-> "import",
                                                       args |-> wonderlandArgs])
                   /\ modelIdx' = modelIdx + 1
                   /\ UNCHANGED <<mainPc, pc, json, curID, curIDStr, project, id, i,
                                  counterVars, skinVars, treeVars, result>>
    /\ UNCHANGED <<templateProject, keepOtherResources, error, templateVars,
                   files, argv, argi, mark, models, wonderlandArgs, reservedIDs,
                   templateGiven, templateMinID, projectsOnly, wantLegacyImport,
                   mainCurID, returned, spawnVars>>

\* legacyGenerateProject has returned [projectPath, id]: the rest of
\* legacyCompileModel, whose assignment to curID sets its own parameter.
EndModel ==
    /\ mainPc = "build"
    /\ pc = "done"
    /\ returned' = Append(returned, [first |-> curID, next |-> result])
    /\ spawned' = IF projectsOnly THEN spawned
                  ELSE Append(spawned, [run |-> "package", args |-> wonderlandArgs])
    /\ modelIdx' = modelIdx + 1
    /\ mainPc' = "loop"
    /\ pc' = "idle"
    /\ UNCHANGED <<json, ratio, curID, templateProject, keepOtherResources, project,
                   id, i, counterVars, skinVars, treeVars, outVars, templateVars,
                   files, argv, argi, mark, models, wonderlandArgs, reservedIDs,
                   templateGiven, templateMinID, projectsOnly, wantLegacyImport,
                   mainCurID, curIDStr, neoProject, tmpDirs, spawnVars>>

\* legacyGenerateProject has thrown: no UserError, so main throws it again.
ModelFailed ==
    /\ mainPc = "build"
    /\ pc = "failed"
    /\ mainPc' = "failed"
    /\ pc' = "idle"
    /\ UNCHANGED <<json, ratio, curID, templateProject, keepOtherResources, project,
                   id, i, counterVars, skinVars, treeVars, outVars, templateVars,
                   files, argv, argi, mark, models, wonderlandArgs, reservedIDs,
                   templateGiven, templateMinID, projectsOnly, wantLegacyImport,
                   mainCurID, curIDStr, neoProject, modelIdx, tmpDirs, spawned,
                   returned, spawnVars>>

\* The loop over the models has run to its end.
ModelsDone ==
    /\ mainPc = "loop"
    /\ modelIdx = Len(models)
    /\ mainPc' = "done"
    /\ UNCHANGED <<pc, json, ratio, curID, templateProject, keepOtherResources,
                   project, id, i, counterVars, skinVars, treeVars, outVars,
                   templateVars, files, argv, argi, mark, models, wonderlandArgs,
                   reservedIDs, templateGiven, templateMinID, projectsOnly,
                   wantLegacyImport, mainCurID, curIDStr, neoProject, modelIdx,
                   tmpDirs, spawned, returned, spawnVars>>

\* No model file outside and no run of main.
NoFiles ==
    [template |-> [state |-> "missing", json |-> <<>>], gltf |-> <<>>,
     dashIsDir |-> FALSE, version |-> <<0, 8, 10>>]

\* No editor process spawned yet: `let tmpDir = null`, `let childProc = null`.
NoSpawn ==
    /\ childProc = Null
    /\ procs = <<>>
    /\ tmpDir = Null
    /\ killed = {}
    /\ exited = FALSE

\* legacyGenerateProject called by itself: main stays where it is.
NoMain ==
    /\ mainPc = "idle"
    /\ files = NoFiles
    /\ argv = <<>>
    /\ argi = 0
    /\ mark = 0
    /\ models = <<>>
    /\ wonderlandArgs = <<>>
    /\ reservedIDs = Null
    /\ templateGiven = FALSE
    /\ templateMinID = JSNumber(0)
    /\ projectsOnly = FALSE
    /\ wantLegacyImport = FALSE
    /\ mainCurID = JSNumber(0)
    /\ curIDStr = Absent
    /\ neoProject = <<>>
    /\ modelIdx = 0
    /\ tmpDirs = 0
    /\ spawned = <<>>
    /\ returned = <<>>
    /\ NoSpawn

(***************************************************************************)
(* The documents explored.                                                 *)
(***************************************************************************)
SeqsUpTo(S, n) == UNION {[1..k -> S] : k \in 0..n}

EmptyDoc ==
    [images |-> <<>>, textures |-> <<>>, materials |-> <<>>, meshes |-> <<>>,
     skins |-> <<>>, nodes |-> <<>>, animations |-> <<>>]

\* The children list of node p when the child references of the document,
\* in document order, are the pairs <<parent, child>> of edges.
RECURSIVE ChildrenFrom(_, _)
ChildrenFrom(edges, p) ==
    IF edges = <<>> THEN <<>>
    ELSE IF Head(edges)[1] = p
    THEN <<Head(edges)[2]>> \o ChildrenFrom(Tail(edges), p)
    ELSE ChildrenFrom(Tail(edges), p)

NodesFromEdges(n, edges) ==
    [k \in 1..n |-> [name |-> Absent, children |-> ChildrenFrom(edges, k - 1),
                     skin |-> Undefined]]

\* MaxNodes nodes with arbitrary child references among them: cycles, self
\* references and nodes listed as a child more than once included.
GenericDocs ==
    {[EmptyDoc EXCEPT !.nodes = NodesFromEdges(MaxNodes, edges)] :
        edges \in SeqsUpTo((0..(MaxNodes - 1)) \X (0..(MaxNodes - 1)), MaxEdges)}

\* The children of node p, ascending, when parentOf[k] is the parent of node k.
ChildrenByParent(parentOf, p) ==
    LET S == {k \in DOMAIN parentOf : parentOf[k] = p}
    IN  [j \in 1..Cardinality(S) |->
            CHOOSE x \in S : Cardinality({y \in S : y < x}) = j - 1]

NodesFromParents(parentOf) ==
    [k \in 1..Cardinality(DOMAIN parentOf) |->
        [name |-> Absent, children |-> ChildrenByParent(parentOf, k - 1),
         skin |-> Undefined]]

\* parentOf[k] is Root or a node before k: every forest of n nodes whose
\* parents precede their children.
ParentMaps(n) ==
    {f \in [0..(n - 1) -> {Root} \cup (0..(n - 2))] : \A k \in 0..(n - 1) : f[k] < k}

ForestDocs ==
    {[EmptyDoc EXCEPT !.nodes = NodesFromParents(f)] :
        f \in UNION {ParentMaps(n) : n \in 0..MaxForestNodes}}

\* Four nodes without a parent, then up to MaxWideChildren nodes that are
\* each the child of one of the four.
WideDocs ==
    {[EmptyDoc EXCEPT !.nodes =
        NodesFromParents([k \in 0..(3 + n) |-> IF k < 4 THEN Root ELSE owner[k - 3]])] :
        n \in 0..MaxWideChildren, owner \in [1..MaxWideChildren -> 0..3]}

\* More than ten nodes: three nodes with at most one child reference among
\* them, which may name no node, then PadNodes childless nodes.
LongDocs ==
    {[EmptyDoc EXCEPT !.nodes = NodesFromEdges(3 + PadNodes, edges)] :
        edges \in SeqsUpTo((0..2) \X {0, 1, 2, 3 + PadNodes}, 1)}

NameLists == SeqsUpTo({Absent, EmptyString, <<"a">>}, MaxNames)

Named(names) == [k \in 1..Len(names) |-> [name |-> names[k]]]

\* Every category filled: the named categories from one list of names, the
\* textures from a list of sources.
ResourceDoc(names, sources) ==
    [images     |-> Named(names),
     textures   |-> [k \in 1..Len(sources) |-> [source |-> sources[k]]],
     materials  |-> Named(names),
     meshes     |-> Named(names),
     skins      |-> [k \in 1..Len(names) |-> [name |-> names[k], joints |-> <<0>>]],
     nodes      |-> NodesFromEdges(Len(names), <<>>),
     animations |-> Named(names)]

\* Every list of names with one list of sources, and every list of sources
\* with one list of names.
ResourceDocs ==
    {ResourceDoc(names, <<0, 0, 1>>) : names \in NameLists}
    \cup {ResourceDoc(<<Absent>>, sources) :
             sources \in SeqsUpTo(0..(MaxSources - 1), MaxTextures)}

\* The joints list of skin s when the joint references of the document, in
\* document order, are the pairs <<skin, node>> of refs.
SkinsFromRefs(refs) ==
    [k \in 1..MaxSkins |-> [name |-> Absent, joints |-> ChildrenFrom(refs, k - 1)]]

SkinDoc(refs, edges, bind) ==
    [EmptyDoc EXCEPT
        !.skins = SkinsFromRefs(refs),
        !.nodes = [NodesFromEdges(MaxSkinNodes, edges) EXCEPT ![1].skin = bind]]

\* MaxSkins skins over MaxSkinNodes nodes, flat or the last node the parent
\* of the first; without joints, node 0 may bind a mesh to a skin, also to
\* one the document does not hold.
SkinDocs ==
    {SkinDoc(refs, edges, Undefined) :
        refs \in SeqsUpTo((0..(MaxSkins - 1)) \X (0..(MaxSkinNodes - 1)), MaxJoints),
        edges \in {<<>>, <<<<MaxSkinNodes - 1, 0>>>>}}
    \cup {SkinDoc(<<>>, <<>>, bind) : bind \in {0, MaxSkins}}

Init ==
    /\ NoMain
    /\ tjson = EmptyMap
    /\ maxID = JSNumber(TemplateMinID)
    /\ defaults = builtinTemplate
    /\ \/ \E doc \in GenericDocs \cup ForestDocs \cup WideDocs \cup LongDocs \cup SkinDocs :
            Start(doc, 100, TemplateMinID + 1, builtinTemplate, FALSE)
       \/ \E doc \in ResourceDocs, opt \in {<<100, FALSE>>, <<50, TRUE>>} :
            Start(doc, opt[1], TemplateMinID + 1, builtinTemplate, opt[2])

Next ==
    \/ GenImage
    \/ GenTexture
    \/ GenMaterial
    \/ GenMesh
    \/ GenSkin
    \/ BuildNode
    \/ AttachOrphans
    \/ Reverse
    \/ DfsVisit
    \/ DfsEnd
    \/ GenAnimation
    \/ WriteProject

Spec == Init /\ [][Next]_vars

(***************************************************************************)
(* The template project files explored.                                    *)
(***************************************************************************)
\* Keys of a project file: the numbers 4, 8, ... and a primitive mesh key.
NumericKeys == {4 * k : k \in 1..MaxKey}

TemplateKeys == {toString(k) : k \in NumericKeys} \cup {<<"p0">>}

\* The entry under a key. Under the symbolic key and the numeric keys 4,
\* 20, ... a default resource; under 8, 24, ... a resource of a model file;
\* under 12, 28, ... an entry without link; under 16, 32, ... one whose link
\* is null.
TemplateObj(key) ==
    LET kind == IF isNaN(Number(key)) THEN 1 ELSE (Number(key) \div 4) % 4
    IN  [linkIs |-> CASE kind = 3 -> "undefined" [] kind = 0 -> "null" [] OTHER -> "object",
         link |-> [name |-> <<"n">> \o key,
                   file |-> IF kind = 1 THEN <<"default">> ELSE symlinkRelPath]]

\* Object.entries of an object with these keys: the integer keys ascending,
\* then the others.
EntriesOf(keys) ==
    LET nums == {Number(k) : k \in {x \in keys : ~isNaN(Number(x))}}
        syms == {x \in keys : isNaN(Number(x))}
        numSeq == [j \in 1..Cardinality(nums) |->
                     toString(CHOOSE x \in nums : Cardinality({y \in nums : y < x}) = j - 1)]
        symSeq == IF syms = {} THEN <<>> ELSE <<CHOOSE x \in syms : TRUE>>
        all == numSeq \o symSeq
    IN  [j \in 1..Len(all) |-> [key |-> all[j], obj |-> TemplateObj(all[j])]]

TemplateFrom(placed) ==
    [cat \in Range(TemplateCategories) |->
        EntriesOf({pl[2] : pl \in {x \in placed : x[1] = cat}})]

\* The subsets of S with at most n elements.
RECURSIVE SubsetsUpTo(_, _)
SubsetsUpTo(S, n) ==
    IF n = 0 THEN {{}}
    ELSE LET smaller == SubsetsUpTo(S, n - 1)
         IN  smaller \cup {x \cup {e} : x \in smaller, e \in S}

\* Every project file with at most MaxTemplateKeys entries.
Templates ==
    {TemplateFrom(placed) :
        placed \in SubsetsUpTo(Range(TemplateCategories) \X TemplateKeys,
                               MaxTemplateKeys)}

\* parseTemplateProject after line 716.
InitTemplate ==
    /\ NoMain
    /\ tjson \in Templates
    /\ maxID = JSNumber(0)
    /\ defaults = NoDefaults
    /\ pc = "parse"
    /\ i = 0
    /\ json = EmptyDoc
    /\ ratio = 100
    /\ curID = 0
    /\ templateProject = NoDefaults
    /\ keepOtherResources = FALSE
    /\ project = generateBaseProject(NoDefaults, FALSE)
    /\ id = 0
    /\ imgDefaultNum = 0
    /\ texSources = {}
    /\ texCount = 0
    /\ matDefaultNum = 0
    /\ meshDefaultNum = 0
    /\ skinDefaultNum = 0
    /\ animDefaultNum = 0
    /\ skinsMap = EmptyMap
    /\ jointIdxs = EmptyMap
    /\ nodesFlat = EmptyMap
    /\ tree = <<>>
    /\ orphans = {}
    /\ stack = <<>>
    /\ written = <<>>
    /\ result = Null
    /\ error = "none"

NextTemplate == ParseCategory

SpecTemplate == InitTemplate /\ [][NextTemplate]_vars

(***************************************************************************)
(* The command lines and the files explored.                               *)
(***************************************************************************)
\* The state of legacyGenerateProject and of parseTemplateProject while
\* neither runs.
Idle ==
    /\ pc = "idle"
    /\ json = EmptyDoc
    /\ ratio = 100
    /\ curID = 0
    /\ project = generateBaseProject(NoDefaults, FALSE)
    /\ id = 0
    /\ i = 0
    /\ imgDefaultNum = 0
    /\ texSources = {}
    /\ texCount = 0
    /\ matDefaultNum = 0
    /\ meshDefaultNum = 0
    /\ skinDefaultNum = 0
    /\ animDefaultNum = 0
    /\ skinsMap = EmptyMap
    /\ jointIdxs = EmptyMap
    /\ nodesFlat = EmptyMap
    /\ tree = <<>>
    /\ orphans = {}
    /\ stack = <<>>
    /\ written = <<>>
    /\ result = Null
    /\ error = "none"
    /\ tjson = EmptyMap
    /\ maxID = JSNumber(0)
    /\ defaults = NoDefaults

\* The versions the editor reports in its help text.
EditorVersions == {<<0, 8, 10>>, <<0, 9, 3>>, <<0, 9, 4>>, <<1, 0, 0>>}

ModelA == <<"a", ".gltf">>

ModelB == <<"b", ".gltf">>

TemplatePath == <<"t", ".wlp">>

\* An option with the argument that follows it.
OptionUnits ==
    {<<<<"--projects-only">>>>, <<<<"--keep-other-resources">>>>,
     <<<<"--legacy-import">>>>,
     <<<<"--reserve-ids">>, toString(ReservedIds)>>,
     <<<<"--template-project-path">>, TemplatePath>>}

RECURSIVE Flatten(_)
Flatten(seqs) == IF seqs = <<>> THEN <<>> ELSE Head(seqs) \o Flatten(Tail(seqs))

OptionLists(n) == {Flatten(units) : units \in SeqsUpTo(OptionUnits, n)}

\* What follows the model arguments: nothing, or a second mark and after it
\* nothing, an argument for the editor, or the name of a model file.
Tails == {<<>>, <<Mark>>, <<Mark, <<"--windowless">>>>, <<Mark, ModelA>>}

\* Options and one model; options alone; models and what follows them, with
\* and without reserved ids.
CommandLines ==
    {opts \o <<Mark, ModelA>> : opts \in OptionLists(MaxOptions)}
    \cup OptionLists(1)
    \cup {opts \o <<Mark>> \o ms \o tail :
            opts \in {<<>>, <<<<"--reserve-ids">>, toString(ReservedIds)>>},
            ms \in SeqsUpTo({ModelA, ModelB}, MaxModels),
            tail \in Tails}

NoTemplateFile == [state |-> "missing", json |-> TemplateFrom({})]

\* No file, a file that holds no JSON, and project files: one with numeric
\* keys, one whose greatest key is an animation's, one with a link that is
\* null after a default resource, one with a default shader under a key
\* greater than the key of its animation.
TemplateFiles ==
    {NoTemplateFile, [state |-> "malformed", json |-> TemplateFrom({})]}
    \cup {[state |-> "json", json |-> TemplateFrom(placed)] :
            placed \in {{<<"shaders", toString(4)>>, <<"objects", toString(8)>>},
                        {<<"meshes", <<"p0">>>>, <<"animations", toString(4)>>},
                        {<<"shaders", toString(4)>>, <<"pipelines", toString(16)>>},
                        {<<"shaders", toString(52)>>, <<"animations", toString(4)>>}}}

\* The model files: every category filled, or a node whose mesh names a skin
\* the document does not hold.
ModelFiles ==
    {(ModelA :> ResourceDoc(<<Absent>>, <<0>>)) @@ (ModelB :> doc) :
        doc \in {ResourceDoc(<<Absent>>, <<0>>), SkinDoc(<<>>, <<>>, MaxSkins)}}

HasOption(args, option) ==
    \E k \in 1..Len(args) :
        /\ args[k] = option
        /\ \A j \in 1..k : args[j] # Mark

MarkCount(args) == Cardinality({k \in 1..Len(args) : args[k] = Mark})

InitMain ==
    /\ Idle
    /\ mainPc = "args"
    /\ argv \in CommandLines
    /\ files \in
         {[template |-> t, gltf |-> g, dashIsDir |-> d, version |-> o] :
            t \in IF HasOption(argv, <<"--template-project-path">>)
                  THEN TemplateFiles ELSE {NoTemplateFile},
            g \in ModelFiles,
            d \in IF MarkCount(argv) > 1 THEN BOOLEAN ELSE {FALSE},
            o \in EditorVersions}
    /\ argi = 0
    /\ mark = 0
    /\ models = <<>>
    /\ wonderlandArgs = <<>>
    /\ reservedIDs = Null
    /\ templateProject = NoDefaults
    /\ templateGiven = FALSE
    /\ templateMinID = JSNumber(0)
    /\ projectsOnly = FALSE
    /\ wantLegacyImport = FALSE
    /\ keepOtherResources = FALSE
    /\ mainCurID = JSNumber(0)
    /\ curIDStr = Absent
    /\ neoProject = <<>>
    /\ modelIdx = 0
    /\ tmpDirs = 0
    /\ spawned = <<>>
    /\ returned = <<>>
    /\ NoSpawn

NextMain ==
    \/ ParseArg
    \/ ArgsDone
    \/ BeginModel
    \/ GenImage
    \/ GenTexture
    \/ GenMaterial
    \/ GenMesh
    \/ GenSkin
    \/ BuildNode
    \/ AttachOrphans
    \/ Reverse
    \/ DfsVisit
    \/ DfsEnd
    \/ GenAnimation
    \/ WriteProject
    \/ EndModel
    \/ ModelFailed
    \/ ModelsDone

SpecMain == InitMain /\ [][NextMain]_vars

(***************************************************************************)
(* legacyGenerateProject called again.                                     *)
(***************************************************************************)
InitRerun ==
    /\ NoMain
    /\ tjson = EmptyMap
    /\ maxID = JSNumber(TemplateMinID)
    /\ defaults = builtinTemplate
    /\ \E doc \in ResourceDocs \cup WideDocs, opt \in {<<100, FALSE>>, <<50, TRUE>>} :
            Start(doc, opt[1], TemplateMinID + 1, builtinTemplate, opt[2])

NextRerun ==
    \/ GenImage
    \/ GenTexture
    \/ GenMaterial
    \/ GenMesh
    \/ GenSkin
    \/ BuildNode
    \/ AttachOrphans
    \/ Reverse
    \/ DfsVisit
    \/ DfsEnd
    \/ GenAnimation
    \/ WriteProject
    \/ Rerun

SpecRerun == InitRerun /\ [][NextRerun]_vars

(***************************************************************************)
(* generateProject of src/gltf-to-wl-bin.js, the program before templates  *)
(* and reserved ids. An id that JSON.stringify emits is kept with its      *)
(* type: a key or an id.toString() is a JSString, an id stored as it is a  *)
(* JSNumber. A property an object may lack (parent, skin) is the list of   *)
(* its values: empty or of one value.                                      *)
(***************************************************************************)
\* The parameter origFilePath.
origFilePath == <<"model", ".gltf">>

\* let id = 28
OriginalFirstID == TemplateMinID

\* The project literal of lines 115-298, its shaders and pipelines abridged
\* to one entry each.
OriginalProject ==
    [objects    |-> EmptyMap,
     meshes     |-> EmptyMap,
     textures   |-> EmptyMap,
     images     |-> EmptyMap,
     materials  |-> EmptyMap,
     shaders    |-> (JSString(<<"1">>) :> LinkEntry(<<"Depth.frag">>, <<"default">>)),
     animations |-> EmptyMap,
     skins      |-> EmptyMap,
     pipelines  |-> (JSString(<<"2", "7">>) :> LinkEntry(<<"Sky">>, <<"default">>)),
     files      |-> <<origFilePath>>]

\* The order of the blocks of generateProject.
PhaseAfterOriginal(p) ==
    CASE p = "skins"      -> "nodes"
      [] p = "nodes"      -> "orphans"
      [] p = "orphans"    -> "reverse"
      [] p = "reverse"    -> "dfs"
      [] p = "dfs"        -> "meshes"
      [] p = "meshes"     -> "materials"
      [] p = "materials"  -> "animations"
      [] p = "animations" -> "images"
      [] p = "images"     -> "textures"
      [] p = "textures"   -> "write"
      [] p = "write"      -> "done"

\* State of generateProject when it reaches `// generate skins`.
StartOriginal(doc, r) ==
    /\ pc = "skins"
    /\ json = doc
    /\ ratio = r
    /\ curID = OriginalFirstID
    /\ templateProject = builtinTemplate
    /\ keepOtherResources = FALSE
    /\ project = OriginalProject
    /\ id = OriginalFirstID
    /\ i = 0
    /\ imgDefaultNum = 0
    /\ texSources = {}
    /\ texCount = 0
    /\ matDefaultNum = 0
    /\ meshDefaultNum = 0
    /\ skinDefaultNum = 0
    /\ animDefaultNum = 0
    /\ skinsMap = EmptyMap
    /\ jointIdxs = EmptyMap
    /\ nodesFlat = EmptyMap
    /\ tree = <<>>
    /\ orphans = {}
    /\ stack = <<>>
    /\ written = <<>>
    /\ result = Null
    /\ error = "none"

\* What no step of generateProject assigns.
OriginalFrame ==
    UNCHANGED <<inputVars, templateProject, counterVars, result, templateVars, mainVars>>

\* One round of a for-of loop that stores entry under id.toString() in the
\* map of its category, or the end of the loop.
OriginalAdd(cat, count, entry) ==
    /\ pc = cat
    /\ IF i < count
       THEN /\ project' = [project EXCEPT ![cat] = Put(@, JSString(toString(id)), entry)]
            /\ id' = id + 1
            /\ i' = i + 1
            /\ UNCHANGED pc
       ELSE /\ pc' = PhaseAfterOriginal(pc)
            /\ i' = 0
            /\ UNCHANGED <<project, id>>

\* generate skins (lines 303-324)
OriginalSkin ==
    /\ OriginalAdd("skins", Len(json.skins),
                   SkinEntry(At(json.skins, i).name, origFilePath))
    /\ IF i < Len(json.skins)
       THEN /\ jointIdxs' = SetJoints(jointIdxs, At(json.skins, i).joints, id)
            /\ skinsMap' = Put(skinsMap, i, id)
       ELSE UNCHANGED skinVars
    /\ UNCHANGED <<treeVars, written, error>>
    /\ OriginalFrame

\* Node.toJson (lines 70-96) without the link name.
OriginalObjectEntry(nodes, n, name, file) ==
    [link |-> [name |-> name, file |-> file],
     parent |-> IF IdOf(nodes, nodes[n].parent) # Null
                THEN <<JSString(toString(IdOf(nodes, nodes[n].parent)))>> ELSE <<>>,
     skin |-> IF nodes[n].skin # Null
              THEN <<JSString(toString(nodes[n].skin))>> ELSE <<>>,
     components |-> IF nodes[n].meshSkin # Null
                    THEN <<[mesh |-> [skin |-> JSString(toString(nodes[n].meshSkin))]]>>
                    ELSE <<>>]

\* skinsJoints.get(node.skin).push(id): the id is pushed as it is.
OriginalPushJoint(skins, skin, pushed) ==
    [skins EXCEPT ![JSString(toString(skin))].joints = Append(@, JSNumber(pushed))]

\* One round of the for-of loop of the running dfs call with the callback of
\* lines 372-380.
OriginalDfsVisit ==
    /\ pc = "dfs"
    /\ stack # <<>>
    /\ LET top    == stack[Len(stack)]
           child  == At(ChildrenOf(nodesFlat, tree, top.node), top.pos)
           a      == [nodesFlat EXCEPT ![child].id = id]
           skins  == IF a[child].skin # Null
                     THEN OriginalPushJoint(project.skins, a[child].skin, id)
                     ELSE project.skins
           got    == GetPath(a, tree, child, {})
           frames == Descend(stack, child)
       IN  IF got.thrown # "none" \/ a[child].meshSkin = Undefined
           THEN /\ nodesFlat' = got.nodes
                /\ project' = [project EXCEPT !.skins = skins]
                /\ error' = IF got.thrown = "none" THEN "TypeError" ELSE got.thrown
                /\ pc' = "failed"
                /\ UNCHANGED <<id, stack>>
           ELSE /\ nodesFlat' = got.nodes
                /\ project' = [project EXCEPT
                                 !.skins = skins,
                                 !.objects = Put(@, JSString(toString(id)),
                                                 OriginalObjectEntry(got.nodes, child,
                                                                     got.path, origFilePath))]
                /\ id' = id + 1
                /\ IF Len(frames) > StackLimit
                   THEN /\ error' = "RangeError"
                        /\ pc' = "failed"
                        /\ UNCHANGED stack
                   ELSE /\ stack' = Unwind(got.nodes, tree, frames)
                        /\ UNCHANGED <<error, pc>>
    /\ UNCHANGED <<i, skinVars, tree, orphans, written>>
    /\ OriginalFrame

\* tree.dfs(...) has returned.
OriginalDfsEnd ==
    /\ pc = "dfs"
    /\ stack = <<>>
    /\ pc' = PhaseAfterOriginal(pc)
    /\ UNCHANGED <<project, id, i, skinVars, treeVars, written, error>>
    /\ OriginalFrame

\* generate meshes list (lines 383-401)
OriginalMesh ==
    /\ OriginalAdd("meshes", Len(json.meshes),
                   MeshEntry(At(json.meshes, i).name, origFilePath, ratio))
    /\ UNCHANGED <<skinVars, treeVars, written, error>>
    /\ OriginalFrame

\* generate materials list (lines 403-415)
OriginalMaterial ==
    /\ OriginalAdd("materials", Len(json.materials),
                   LinkEntry(At(json.materials, i).name, origFilePath))
    /\ UNCHANGED <<skinVars, treeVars, written, error>>
    /\ OriginalFrame

\* generate animations list (lines 417-429)
OriginalAnimation ==
    /\ OriginalAdd("animations", Len(json.animations),
                   LinkEntry(At(json.animations, i).name, origFilePath))
    /\ UNCHANGED <<skinVars, treeVars, written, error>>
    /\ OriginalFrame

\* generate images list (lines 431-443)
OriginalImage ==
    /\ OriginalAdd("images", Len(json.images),
                   LinkEntry(At(json.images, i).name, origFilePath))
    /\ UNCHANGED <<skinVars, treeVars, written, error>>
    /\ OriginalFrame

\* generate textures list (lines 445-457): one entry per texture.
OriginalTexture ==
    /\ OriginalAdd("textures", Len(json.textures),
                   LinkEntry(DefaultName("texture_", At(json.textures, i).source),
                             origFilePath))
    /\ UNCHANGED <<skinVars, treeVars, written, error>>
    /\ OriginalFrame

\* fs.writeFileSync(projectPath, JSON.stringify(project, null, 4))
OriginalWrite ==
    /\ pc = "write"
    /\ written' = Append(written, project)
    /\ pc' = PhaseAfterOriginal(pc)
    /\ UNCHANGED <<project, id, i, skinVars, treeVars, error>>
    /\ OriginalFrame

InitOriginal ==
    /\ NoMain
    /\ tjson = EmptyMap
    /\ maxID = JSNumber(TemplateMinID)
    /\ defaults = builtinTemplate
    /\ \/ \E doc \in SkinDocs \cup WideDocs : StartOriginal(doc, 100)
       \/ \E doc \in ResourceDocs, r \in {100, 50} : StartOriginal(doc, r)

\* The scene objects tree of lines 326-369 is built by the statements of
\* legacyGenerateProject, unchanged since.
NextOriginal ==
    \/ OriginalSkin
    \/ BuildNode
    \/ AttachOrphans
    \/ Reverse
    \/ OriginalDfsVisit
    \/ OriginalDfsEnd
    \/ OriginalMesh
    \/ OriginalMaterial
    \/ OriginalAnimation
    \/ OriginalImage
    \/ OriginalTexture
    \/ OriginalWrite

SpecOriginal == InitOriginal /\ [][NextOriginal]_vars

(***************************************************************************)
(* legacyGenerateProject on documents whose nodes may be named, and on     *)
(* documents that list one node as the child of two.                       *)
(***************************************************************************)
NodeNames == {Absent, <<"a">>}

WithNames(nodes, names) == [k \in 1..Len(nodes) |-> [nodes[k] EXCEPT !.name = names[k]]]

\* Every forest of up to MaxNamedNodes nodes, every node named or not.
NamedDocs ==
    UNION {{[EmptyDoc EXCEPT !.nodes = WithNames(NodesFromParents(f), names)] :
              f \in ParentMaps(n), names \in [1..n -> NodeNames]} :
           n \in 1..MaxNamedNodes}

\* MaxNamedNodes nodes and one more, which two children lists name.
SharedDocs ==
    {[EmptyDoc EXCEPT !.nodes =
        NodesFromEdges(MaxNamedNodes + 1, <<<<p, MaxNamedNodes>>, <<q, MaxNamedNodes>>>>)] :
        p \in 0..MaxNamedNodes, q \in 0..MaxNamedNodes}

InitPaths ==
    /\ NoMain
    /\ tjson = EmptyMap
    /\ maxID = JSNumber(TemplateMinID)
    /\ defaults = builtinTemplate
    /\ \E doc \in NamedDocs \cup SharedDocs :
            Start(doc, 100, TemplateMinID + 1, builtinTemplate, FALSE)

NextPaths ==
    \/ GenImage
    \/ GenTexture
    \/ GenMaterial
    \/ GenMesh
    \/ GenSkin
    \/ BuildNode
    \/ AttachOrphans
    \/ Reverse
    \/ DfsVisit
    \/ DfsEnd
    \/ GenAnimation
    \/ WriteProject

SpecPaths == InitPaths /\ [][NextPaths]_vars

(***************************************************************************)
(* spawnWLE and the SIGINT handler                                         *)
(***************************************************************************)
\* The child process spawn returns, with the `let done = false` and the
\* pending promise of its call of spawnWLE. calls counts the calls of resolve
\* and reject, by names the event whose handler made the first, with the exit
\* code; exitSeen and errors are the events the process has emitted.
NewChild ==
    [done |-> FALSE, promise |-> "pending", calls |-> 0, by |-> <<"none", -1>>,
     exitSeen |-> FALSE, errors |-> 0]

\* resolve() or reject(...) called for child: the first call settles.
Settle(child, outcome, by) ==
    [child EXCEPT !.promise = IF @ = "pending" THEN outcome ELSE @,
                  !.by = IF child.promise = "pending" THEN by ELSE @,
                  !.calls = @ + 1]

\* The 'exit' handler without its assignment to childProc.
exitHandlerKeepChild(child, proc, code) ==
    IF child.done THEN [child |-> child, childProc |-> proc]
    ELSE [child |-> Settle([child EXCEPT !.done = TRUE],
                           IF code = 0 THEN "resolved" ELSE "rejected",
                           <<"exit", code>>),
          childProc |-> proc]

\* childProc.on('exit', (code, signal) => ...)
exitHandler(child, proc, code) ==
    IF child.done THEN [child |-> child, childProc |-> proc]
    ELSE [child |-> Settle([child EXCEPT !.done = TRUE],
                           IF code = 0 THEN "resolved" ELSE "rejected",
                           <<"exit", code>>),
          childProc |-> Null]

\* childProc.on('error', (err) => ...)
errorHandler(child, proc) ==
    IF child.done THEN [child |-> child, childProc |-> proc]
    ELSE [child |-> Settle([child EXCEPT !.done = TRUE], "rejected", <<"error", -1>>),
          childProc |-> Null]

\* The promise of the last call of spawnWLE is settled, or there was no call:
\* every call is awaited, so only then the program goes on.
Awaited == IF procs = <<>> THEN TRUE ELSE procs[Len(procs)].promise # "pending"

\* A call of spawnWLE: by detectVersion before any temporary folder is made,
\* by packageProject or importPackageProject in the folder main has made.
SpawnWLE ==
    /\ ~exited
    /\ Awaited
    /\ Len(procs) < MaxSpawns
    /\ \E mkdtemp \in BOOLEAN :
          tmpDir' = IF mkdtemp THEN 1 ELSE tmpDir
    /\ procs' = Append(procs, NewChild)
    /\ childProc' = Len(procs')
    /\ UNCHANGED <<killed, exited>>

\* A child process emits 'exit', once.
OnExit ==
    /\ ~exited
    /\ \E p \in DOMAIN procs : \E code \in {0, 1} :
          /\ ~procs[p].exitSeen
          /\ LET got == exitHandler([procs[p] EXCEPT !.exitSeen = TRUE],
                                    childProc, code)
             IN  /\ procs' = [procs EXCEPT ![p] = got.child]
                 /\ childProc' = got.childProc
    /\ UNCHANGED <<tmpDir, killed, exited>>

\* A child process emits 'error', before or after its 'exit'.
OnError ==
    /\ ~exited
    /\ \E p \in DOMAIN procs :
          /\ procs[p].errors < MaxErrors
          /\ LET got == errorHandler([procs[p] EXCEPT !.errors = @ + 1], childProc)
             IN  /\ procs' = [procs EXCEPT ![p] = got.child]
                 /\ childProc' = got.childProc
    /\ UNCHANGED <<tmpDir, killed, exited>>

\* removeTmpDir
removeTmpDir(dir) == Null

\* After the awaited promise: finalizeBin, or the finally of main.
Finalize ==
    /\ ~exited
    /\ procs # <<>>
    /\ Awaited
    /\ tmpDir # Null
    /\ tmpDir' = removeTmpDir(tmpDir)
    /\ UNCHANGED <<childProc, procs, killed, exited>>

\* process.on('SIGINT', ...)
OnSigint ==
    /\ ~exited
    /\ killed' = IF childProc # Null THEN killed \cup {childProc} ELSE killed
    /\ tmpDir' = removeTmpDir(tmpDir)
    /\ exited' = TRUE
    /\ UNCHANGED <<childProc, procs>>

\* Nothing of the build runs while the editor processes do.
BuildIdle ==
    UNCHANGED <<pc, json, ratio, curID, templateProject, keepOtherResources, project,
                id, i, counterVars, skinVars, treeVars, outVars, templateVars,
                mainPc, files, argv, argi, mark, models, wonderlandArgs, reservedIDs,
                templateGiven, templateMinID, projectsOnly, wantLegacyImport,
                mainCurID, curIDStr, neoProject, modelIdx, tmpDirs, spawned, returned>>

InitSpawn ==
    /\ Idle
    /\ NoMain
    /\ templateProject = NoDefaults
    /\ keepOtherResources = FALSE

NextSpawn ==
    \/ SpawnWLE /\ BuildIdle
    \/ OnExit /\ BuildIdle
    \/ OnError /\ BuildIdle
    \/ Finalize /\ BuildIdle
    \/ OnSigint /\ BuildIdle

SpecSpawn == InitSpawn /\ [][NextSpawn]_vars

(***************************************************************************)
(* The input document and the emitted project, as the properties read      *)
(* them.                                                                   *)
(***************************************************************************)
NodeCount == Len(json.nodes)

NodeIdxs == 0..(NodeCount - 1)

JsonChildren(n) == json.nodes[n + 1].children

\* The places <<p, k>> where a children list names a child.
ChildRefs == UNION {{<<p, k>> : k \in 1..Len(JsonChildren(p))} : p \in NodeIdxs}

Occurrences(n) == Cardinality({r \in ChildRefs : JsonChildren(r[1])[r[2]] = n})

JsonParents(n) == {p \in NodeIdxs : n \in Range(JsonChildren(p))}

RECURSIVE Rooted(_, _)
Rooted(n, fuel) ==
    IF JsonParents(n) = {} THEN TRUE
    ELSE IF fuel = 0 THEN FALSE
    ELSE Rooted(CHOOSE p \in JsonParents(n) : TRUE, fuel - 1)

\* The node list is a forest: every child index names a node, no node is
\* listed as a child twice, and no node is its own ancestor.
IsForest ==
    /\ \A r \in ChildRefs : JsonChildren(r[1])[r[2]] \in NodeIdxs
    /\ \A n \in NodeIdxs : Occurrences(n) <= 1
    /\ \A n \in NodeIdxs : Rooted(n, NodeCount)

\* The nodes no node lists as a child.
Unlisted == {n \in NodeIdxs : JsonParents(n) = {}}

Reversed(seq) == [k \in 1..Len(seq) |-> seq[Len(seq) + 1 - k]]

AfterOrphans == {"reverse", "dfs", "animations", "write", "done"}

AfterDfs == {"animations", "write", "done"}

\* The object emitted for node n.
ObjectOf(n) == project.objects[toString(nodesFlat[n].id)]

EveryNodeOnce ==
    /\ Cardinality(DOMAIN project.objects) = NodeCount
    /\ \A n \in NodeIdxs :
          /\ nodesFlat[n].id # Null
          /\ toString(nodesFlat[n].id) \in DOMAIN project.objects
          /\ \A m \in NodeIdxs \ {n} : nodesFlat[m].id # nodesFlat[n].id

(***************************************************************************)
(* C1: for every node list, well-formed or not, the returned project holds *)
(* every input node exactly once as an object: as many objects as nodes,   *)
(* and no node under two ids.                                              *)
(***************************************************************************)
C1_EveryNodeOnce_Any == pc = "done" => EveryNodeOnce

\* C1 as amended: the same for every node list that is a forest.
C1_EveryNodeOnce_Forest == (IsForest /\ pc = "done") => EveryNodeOnce

C1_Witness ==
    /\ pc = "done"
    /\ IsForest
    /\ NodeCount >= 3
    /\ \E n \in NodeIdxs : JsonChildren(n) # <<>>
    /\ Cardinality(DOMAIN project.objects) = NodeCount

(***************************************************************************)
(* C2: the nodes no node lists as a child become the children of the       *)
(* virtual root in ascending numeric order of their index, for every node  *)
(* count (2 before 10).                                                    *)
(***************************************************************************)
C2_OrphansAscending == pc \in AfterOrphans => tree = Ascending(Unlisted)

(***************************************************************************)
(* C3: Node.reverse on the virtual root reverses the root's child list     *)
(* ([A, B, C, D] becomes [D, C, B, A]) and exchanges the children lists    *)
(* within each outside-in pair; a middle child keeps its children.         *)
(***************************************************************************)
ChildrenExchanged ==
    \A k \in 1..Len(tree) :
        nodesFlat'[tree[k]].children = nodesFlat[tree[Len(tree) + 1 - k]].children

ChildrenOwned ==
    \A k \in 1..Len(tree) :
        \A c \in Range(nodesFlat'[tree[k]].children) : nodesFlat'[c].parent = tree[k]

C4Nodes ==
    <<[name |-> Absent, children |-> <<1>>, skin |-> Undefined],
      [name |-> Absent, children |-> <<>>, skin |-> Undefined],
      [name |-> Absent, children |-> <<>>, skin |-> Undefined]>>

C4Emitted(owner) ==
    /\ Cardinality(DOMAIN project.objects) = 3
    /\ {n \in NodeIdxs : ObjectOf(n).parent = Absent} = {0, 2}
    /\ ObjectOf(1).parent = toString(nodesFlat[owner].id)
    /\ nodesFlat[1].id = nodesFlat[owner].id + 1

C4_ChildOfA == (json.nodes = C4Nodes /\ pc = "done") => C4Emitted(0)

\* C4 as amended: B is emitted as C's child, to which tree.reverse() hands
\* the children of A, with the id that follows C's id.
C4_ChildOfC == (json.nodes = C4Nodes /\ pc = "done") => C4Emitted(2)

C4_Witness ==
    /\ json.nodes = C4Nodes
    /\ pc = "done"
    /\ ObjectOf(1).parent = toString(nodesFlat[2].id)

(***************************************************************************)
(* C5: ids are assigned in one pre-order depth-first pass over the         *)
(* transformed tree: a visited node takes the next counter value before    *)
(* any of its descendants, so its id is smaller than theirs, the ids of    *)
(* its subtree are the contiguous range that starts at its id, siblings    *)
(* get increasing ids in child order, and an id once set is not            *)
(* reassigned. The tree is that of a node list that is a forest.           *)
(***************************************************************************)
RECURSIVE Descendants(_, _)
Descendants(n, fuel) ==
    IF fuel = 0 THEN {}
    ELSE LET cs == Range(ChildrenOf(nodesFlat, tree, n))
         IN  cs \cup UNION {Descendants(c, fuel - 1) : c \in cs}

Subtree(n) == {n} \cup Descendants(n, NodeCount)

AncestorsFirst ==
    \A n \in NodeIdxs : \A d \in Descendants(n, NodeCount) :
        nodesFlat[d].id # Null =>
            (nodesFlat[n].id # Null /\ nodesFlat[n].id < nodesFlat[d].id)

SiblingsInOrder ==
    \A p \in NodeIdxs \cup {Root} :
        LET cs == ChildrenOf(nodesFlat, tree, p)
        IN  \A k, l \in 1..Len(cs) :
                (k < l /\ nodesFlat[cs[l]].id # Null) =>
                    (nodesFlat[cs[k]].id # Null /\ nodesFlat[cs[k]].id < nodesFlat[cs[l]].id)

SubtreesContiguous ==
    \A n \in NodeIdxs :
        {nodesFlat[x].id : x \in Subtree(n)} =
            nodesFlat[n].id..(nodesFlat[n].id + Cardinality(Subtree(n)) - 1)

PreOrder ==
    /\ pc \in {"dfs"} \cup AfterDfs => (AncestorsFirst /\ SiblingsInOrder)
    /\ pc \in AfterDfs => SubtreesContiguous

\* A node that has an id keeps it; a node that gets one gets the counter's
\* value, and the counter moves on by one.
IdsFromCounter ==
    \A n \in DOMAIN nodesFlat :
        IF nodesFlat[n].id # Null
        THEN n \in DOMAIN nodesFlat' /\ nodesFlat'[n].id = nodesFlat[n].id
        ELSE (n \in DOMAIN nodesFlat' /\ nodesFlat'[n].id # Null) =>
                 (nodesFlat'[n].id = id /\ (pc' # "failed" => id' = id + 1))

Allocated(cat) ==
    {Number(k) : k \in {x \in DOMAIN project[cat] :
                           project[cat][x].link.file = symlinkRelPath}}

CategoryOrder ==
    <<"images", "textures", "materials", "meshes", "skins", "objects", "animations">>

C6_CategoryOrder ==
    \A a, b \in 1..Len(CategoryOrder) :
        a < b => \A x \in Allocated(CategoryOrder[a]), y \in Allocated(CategoryOrder[b]) :
                     x < y

C6_Witness ==
    /\ pc = "done"
    /\ \A a \in 1..Len(CategoryOrder) : Allocated(CategoryOrder[a]) # {}

(***************************************************************************)
(* C7: textures are deduplicated by source: as many texture ids as         *)
(* distinct sources, an id only at the first entry of a source, and that   *)
(* entry named texture_<k> by its 0-based position k in json.textures      *)
(* (sources [0, 0, 1] give two ids, named texture_0 and texture_2).        *)
(***************************************************************************)
SourceAt(k) == json.textures[k].source

FirstOfSource(k) == \A j \in 1..(k - 1) : SourceAt(j) # SourceAt(k)

\* The texture ids follow the image ids; an entry's id is by the number of
\* distinct sources before it.
TextureIdAt(k) ==
    curID + Len(json.images) + Cardinality({SourceAt(j) : j \in 1..(k - 1)})

C7_TextureDedup ==
    pc \notin {"images", "textures", "parse", "parsed"} =>
        /\ Cardinality(Allocated("textures")) =
              Cardinality({SourceAt(k) : k \in 1..Len(json.textures)})
        /\ \A k \in 1..Len(json.textures) :
              FirstOfSource(k) =>
                  /\ toString(TextureIdAt(k)) \in DOMAIN project.textures
                  /\ project.textures[toString(TextureIdAt(k))].link.name =
                        <<"texture_">> \o toString(k - 1)

C7_Witness ==
    /\ pc = "done"
    /\ Len(json.textures) = 3
    /\ SourceAt(1) = 0 /\ SourceAt(2) = 0 /\ SourceAt(3) = 1
    /\ Cardinality(Allocated("textures")) = 2
    /\ {project.textures[k].link.name : k \in DOMAIN project.textures} =
          {<<"texture_", "0">>, <<"texture_", "2">>}

(***************************************************************************)
(* C8: the joints list of every skin holds the object ids of its joint     *)
(* nodes in the order the traversal visits them, which is increasing id,   *)
(* not in the order of the joints declaration.                             *)
(***************************************************************************)
SkinIdxs == 1..Len(json.skins)

DeclaredJoints(s) == Range(json.skins[s].joints)

JointsOf(s) == project.skins[toString(skinsMap[s - 1])].joints

Emitted(n) ==
    /\ n \in NodeIdxs
    /\ nodesFlat[n].id # Null
    /\ toString(nodesFlat[n].id) \in DOMAIN project.objects

C8_JointsInDfsOrder ==
    pc = "done" =>
        \A s \in SkinIdxs :
            JointsOf(s) =
                LET ids == Ascending({nodesFlat[n].id :
                                         n \in {j \in DeclaredJoints(s) : Emitted(j)}})
                IN  [k \in 1..Len(ids) |-> toString(ids[k])]

(***************************************************************************)
(* C9: for every skin S and every node j of S.joints that is emitted as an *)
(* object, id(j) occurs exactly once in the joints list of S, also when a  *)
(* node is declared as a joint by more than one skin.                      *)
(***************************************************************************)
Count(seq, x) == Cardinality({k \in 1..Len(seq) : seq[k] = x})

C9_EveryJointListed ==
    pc = "done" =>
        \A s \in SkinIdxs : \A j \in DeclaredJoints(s) :
            Emitted(j) => Count(JointsOf(s), toString(nodesFlat[j].id)) = 1

(***************************************************************************)
(* C10: parseTemplateProject returns as maxId the maximum numeric key over *)
(* all categories of the template, non-numeric keys ignored, also for      *)
(* templates that hold animation or skin entries.                          *)
(***************************************************************************)
TemplateNumericKeys ==
    {n \in UNION {{Number(tjson[cat][k].key) : k \in 1..Len(tjson[cat])} :
                     cat \in Range(TemplateCategories)} : ~isNaN(n)}

Max(S) == CHOOSE x \in S : \A y \in S : y <= x

C10_MaxNumericKey ==
    pc = "parsed" => ToNumber(maxID) = Max(TemplateNumericKeys \cup {0})

(***************************************************************************)
(* The first id of a build.                                                *)
(***************************************************************************)
\* The number given to --reserve-ids on the command line, 0 without one.
ReservedArg ==
    IF HasOption(argv, <<"--reserve-ids">>)
    THEN Number(argv[1 + CHOOSE k \in 1..Len(argv) :
                        /\ argv[k] = <<"--reserve-ids">>
                        /\ \A j \in 1..(k - 1) : argv[j] # <<"--reserve-ids">>])
    ELSE 0

\* legacyGenerateProject has been entered and has allocated no id yet.
AtEntry == mainPc = "build" /\ pc = "images" /\ i = 0

BuiltinMaxId ==
    ~HasOption(argv, <<"--template-project-path">>)
        => templateMinID = JSNumber(TemplateMinID)

\* C11, as stated: the first id a build allocates is
\* max(reservedIds, maxId) + 1, where maxId is the maximum id of the template
\* and 28 for the built-in template.
C11_FirstIdIsMax ==
    AtEntry =>
        /\ BuiltinMaxId
        /\ IdString(id) = toString(Max({ReservedArg, ToNumber(templateMinID)}) + 1)

\* C11, amended: the first id a build allocates is reservedIds + maxId + 1,
\* where maxId is what parseTemplateProject returned and 28 for the built-in
\* template: the sum when maxId is a number, and the string made of
\* reservedIds, maxId and "1" when maxId is a string.
C11_FirstIdIsSum ==
    AtEntry =>
        /\ BuiltinMaxId
        /\ IF templateMinID.t = "number"
           THEN IdString(id) = toString(ReservedArg + templateMinID.n + 1)
           ELSE IdString(id) = toString(ReservedArg) \o templateMinID.s \o <<"1">>

C11_Witness ==
    /\ AtEntry
    /\ ReservedArg = ReservedIds
    /\ templateMinID = JSNumber(TemplateMinID)
    /\ id = ReservedIds + TemplateMinID + 1

(***************************************************************************)
(* The ids of the models of one run.                                       *)
(***************************************************************************)
\* The ids a build allocated.
IdsOf(build) == build.first..(build.next - 1)

\* C12: the ids allocated for one model are allocated for no other model of
\* the same run, with and without --reserve-ids.
C12_DisjointIds ==
    \A j, k \in 1..Len(returned) :
        j # k => IdsOf(returned[j]) \cap IdsOf(returned[k]) = {}

(***************************************************************************)
(* The arguments after the second mark.                                    *)
(***************************************************************************)
\* The index in argv of the second mark, 0 without one.
SecondMark ==
    IF MarkCount(argv) < 2 THEN 0
    ELSE CHOOSE k \in 1..Len(argv) :
            /\ argv[k] = Mark
            /\ Cardinality({j \in 1..(k - 1) : argv[j] = Mark}) = 1

AfterSecondMark == SubSeq(argv, SecondMark + 1, Len(argv))

\* The argument loop has ended, by its end or by an exception.
ArgumentsRead == mainPc \in {"loop", "build", "done", "failed"}

\* C13: every argument after the second mark is appended to wonderlandArgs,
\* and none is taken as the path of a model: the models are those named
\* between the marks.
C13_AfterSecondMark ==
    (ArgumentsRead /\ SecondMark # 0) =>
        /\ wonderlandArgs = AfterSecondMark
        /\ Len(models) <= SecondMark - 1
                          - (CHOOSE k \in 1..Len(argv) : argv[k] = Mark
                                /\ \A j \in 1..(k - 1) : argv[j] # Mark)

(***************************************************************************)
(* legacyGenerateProject run again on the same input.                      *)
(***************************************************************************)
\* C14: called again on the same document with the same starting id,
\* template, ratio and keep flag, legacyGenerateProject writes the same
\* project and returns the same next id.
C14_SameOutput ==
    /\ \A j, k \in 1..Len(written) : written[j] = written[k]
    /\ pc = "done" => \A j \in 1..Len(returned) :
                         /\ returned[j].first = curID
                         /\ returned[j].next = result

C14_Witness ==
    /\ pc = "done"
    /\ Len(written) = MaxRuns
    /\ keepOtherResources
    /\ result > curID + 2
    /\ written[1].images # EmptyMap
    /\ written[1].objects # EmptyMap

(***************************************************************************)
(* The template.                                                           *)
(***************************************************************************)
\* C15: the template holds the keys and entries it held when the first call
\* began, whatever the calls of generateBaseProject and legacyGenerateProject
\* stored in the project, with and without keepOtherResources.
C15_TemplateUntouched == templateProject = builtinTemplate

C15_Witness ==
    /\ pc = "done"
    /\ Len(written) = MaxRuns
    /\ keepOtherResources
    /\ DOMAIN templateProject.meshes # DOMAIN project.meshes
    /\ DOMAIN templateProject.images # DOMAIN project.images
    /\ templateProject.shaders = project.shaders

\* legacyGenerateProject has stored nothing in the project yet.
BaseProject == pc = "images" /\ i = 0

\* C16: the project generateBaseProject returns holds the shaders and the
\* pipelines of the template; the meshes, textures, images and materials of
\* the template when keepOtherResources is set, and none otherwise; and no
\* objects, animations or skins.
C16_BaseProject ==
    BaseProject =>
        /\ project.shaders = templateProject.shaders
        /\ project.pipelines = templateProject.pipelines
        /\ \A cat \in {"meshes", "textures", "images", "materials"} :
              project[cat] = IF keepOtherResources THEN templateProject[cat]
                             ELSE EmptyMap
        /\ project.objects = EmptyMap
        /\ project.animations = EmptyMap
        /\ project.skins = EmptyMap

C16_Witness ==
    /\ BaseProject
    /\ returned # <<>>
    /\ keepOtherResources
    /\ project.meshes # EmptyMap
    /\ project.meshes = templateProject.meshes
    /\ json.meshes # <<>>

(***************************************************************************)
(* The default resources of a template.                                    *)
(***************************************************************************)
\* The keys of the entries of category cat of the project file whose link
\* names the file "default".
DefaultKeys(cat) ==
    {tjson[cat][k].key : k \in {j \in 1..Len(tjson[cat]) :
        /\ tjson[cat][j].obj.linkIs = "object"
        /\ tjson[cat][j].obj.link.file = <<"default">>}}

EntryAt(cat, key) ==
    tjson[cat][CHOOSE k \in 1..Len(tjson[cat]) : tjson[cat][k].key = key].obj

\* C17: for meshes, textures, images, materials, shaders and pipelines the
\* defaults parseTemplateProject returns hold the entries of the category
\* whose link.file is "default", under their keys, and no other entry;
\* objects, animations and skins have no defaults.
C17_DefaultsExact ==
    pc = "parsed" =>
        /\ DOMAIN defaults = DefaultCategories
        /\ \A cat \in DefaultCategories :
              /\ DOMAIN defaults[cat] = DefaultKeys(cat)
              /\ \A key \in DefaultKeys(cat) :
                    defaults[cat][key].link = EntryAt(cat, key).link

C17_Witness ==
    /\ pc = "parsed"
    /\ \E cat \in DefaultCategories :
          /\ <<"p0">> \in DOMAIN defaults[cat]
          /\ Len(tjson[cat]) > Cardinality(DOMAIN defaults[cat])

(***************************************************************************)
(* The project file.                                                       *)
(***************************************************************************)
\* C18: writeProject is called at most once, with the project as it is at
\* the end of the pass, and not at all when a step of the pass throws.
C18_NoPartialWrite ==
    /\ Len(written) <= 1
    /\ pc = "failed" => written = <<>>
    /\ written # <<>> => pc = "done"
    /\ pc = "done" => written = <<project>>

C18_Witness ==
    /\ pc = "failed"
    /\ error = "TypeError"
    /\ project.skins # EmptyMap
    /\ written = <<>>

(***************************************************************************)
(* A template project file that cannot be read.                            *)
(***************************************************************************)
\* The file named after --template-project-path is missing, holds no JSON, or
\* holds a default category with a link that is null.
BadTemplateFile ==
    \/ files.template.state # "json"
    \/ \E cat \in DefaultCategories :
         \E k \in 1..Len(files.template.json[cat]) :
            files.template.json[cat][k].obj.linkIs = "null"

\* C19: when the template project cannot be read or parsed, main ends in the
\* argument loop: no project is generated or written, no temporary folder is
\* made, no editor is spawned, and nothing of the file is taken over.
C19_BadTemplateNoBuild ==
    (HasOption(argv, <<"--template-project-path">>) /\ BadTemplateFile) =>
        /\ mainPc \in {"args", "failed"}
        /\ pc = "idle"
        /\ written = <<>>
        /\ neoProject = <<>>
        /\ tmpDirs = 0
        /\ spawned = <<>>
        /\ returned = <<>>
        /\ ~templateGiven
        /\ templateProject = NoDefaults
        /\ templateMinID = JSNumber(0)

C19_Witness ==
    /\ mainPc = "failed"
    /\ error = "TypeError"
    /\ files.template.state = "json"
    /\ argv[Len(argv)] = ModelA
    /\ written = <<>>
    /\ tmpDirs = 0

(***************************************************************************)
(* C20: every key of an id-keyed map and every cross-reference of a        *)
(* written manifest (the parent and the skin of an object, the skin of a   *)
(* mesh component, every element of the joints list of a skin) is a        *)
(* string, never a number.                                                 *)
(***************************************************************************)
IdKeyed ==
    {"objects", "meshes", "textures", "images", "materials", "shaders",
     "animations", "skins", "pipelines"}

EmittedKeys(p) == UNION {DOMAIN p[cat] : cat \in IdKeyed}

EmittedRefs(p) ==
    UNION {Range(p.objects[k].parent) \cup Range(p.objects[k].skin)
             \cup {c.mesh.skin : c \in Range(p.objects[k].components)} :
           k \in DOMAIN p.objects}
    \cup UNION {Range(p.skins[k].joints) : k \in DOMAIN p.skins}

C20_StringRefs ==
    \A k \in 1..Len(written) :
        \A v \in EmittedKeys(written[k]) \cup EmittedRefs(written[k]) : v.t = "string"

(***************************************************************************)
(* C21: the link name of every emitted object is path(n): localName(n)     *)
(* when the parent of n after the transform is the virtual root, else      *)
(* localName(n), "<" and path(parent(n)); localName(n) is the name of n    *)
(* when it has one, else object_<k> with k the index of n in its parent's  *)
(* child list. The node keeps the value once it is computed.               *)
(***************************************************************************)
LocalName(n) ==
    LET k == indexOf(ChildrenOf(nodesFlat, tree, nodesFlat[n].parent), n)
    IN  IF nodesFlat[n].name # NullStr THEN nodesFlat[n].name
        ELSE IF k < 0 THEN <<"object_", "?">>
        ELSE DefaultName("object_", k)

RECURSIVE PathOf(_, _)
PathOf(n, fuel) ==
    IF nodesFlat[n].parent = Root THEN LocalName(n)
    ELSE IF fuel = 0 THEN <<"?">>
    ELSE LocalName(n) \o <<"<">> \o PathOf(nodesFlat[n].parent, fuel - 1)

EmittedNodes == {n \in DOMAIN nodesFlat : nodesFlat[n].id # Null}

NamesArePaths ==
    pc \in {"dfs"} \cup AfterDfs =>
        \A n \in EmittedNodes :
            /\ ObjectOf(n).link.name = PathOf(n, NodeCount)
            /\ nodesFlat[n].path = PathOf(n, NodeCount)

C21_NameIsPath_Any == NamesArePaths

\* C21 as amended: the same for every node list that is a forest.
C21_NameIsPath_Forest == IsForest => NamesArePaths

C21_Witness ==
    /\ pc = "done"
    /\ IsForest
    /\ \E n \in EmittedNodes :
          /\ nodesFlat[n].parent # Root
          /\ nodesFlat[n].name = NullStr
          /\ nodesFlat[nodesFlat[n].parent].name # NullStr
          /\ nodesFlat[nodesFlat[n].parent].parent # Root

(***************************************************************************)
(* C22: once the tree is built, and once the root's children are           *)
(* transformed, every node has exactly one parent, whose child list holds  *)
(* it exactly once and no other child list holds it; the path getter never *)
(* throws 'Node not present in parent'.                                    *)
(***************************************************************************)
WellParented ==
    \A n \in DOMAIN nodesFlat :
        LET p == nodesFlat[n].parent
        IN  /\ p # Null
            /\ Count(ChildrenOf(nodesFlat, tree, p), n) = 1
            /\ \A q \in (DOMAIN nodesFlat \cup {Root}) \ {p} :
                  Count(ChildrenOf(nodesFlat, tree, q), n) = 0

OneParent ==
    /\ pc \in AfterOrphans => WellParented
    /\ error # "Error"

C22_OneParent_Any == OneParent

\* C22 as amended: one parent for every node list that is a forest; the path
\* getter never throws 'Node not present in parent', forest or not.
C22_OneParent_Forest ==
    /\ (IsForest /\ pc \in AfterOrphans) => WellParented
    /\ pc \in AfterOrphans =>
          \A n \in DOMAIN nodesFlat :
              /\ nodesFlat[n].parent # Null
              /\ Count(ChildrenOf(nodesFlat, tree, nodesFlat[n].parent), n) >= 1
    /\ error # "Error"

C22_Witness ==
    /\ pc = "done"
    /\ IsForest
    /\ Len(tree) >= 2
    /\ JsonChildren(tree[1]) # <<>>
    /\ \E n \in Range(nodesFlat[tree[Len(tree)]].children) :
          /\ nodesFlat[n].name = NullStr
          /\ nodesFlat[n].parent = tree[Len(tree)]
          /\ nodesFlat[n].path # NullStr

(***************************************************************************)
(* C23: an emitted object has a parent field exactly when the parent of    *)
(* its node after the transform is not the virtual root; the field is then *)
(* the id of that parent as a string, the key of an object emitted before. *)
(* The virtual root is not emitted and gets no id: every object is that of *)
(* a node of the document.                                                 *)
(***************************************************************************)
ParentFields ==
    pc \in {"dfs"} \cup AfterDfs =>
        /\ \A n \in EmittedNodes :
              LET p == nodesFlat[n].parent
              IN  /\ ObjectOf(n).parent # Absent <=> p # Root
                  /\ p # Root =>
                        /\ nodesFlat[p].id # Null
                        /\ nodesFlat[p].id < nodesFlat[n].id
                        /\ ObjectOf(n).parent = toString(nodesFlat[p].id)
                        /\ ObjectOf(n).parent \in DOMAIN project.objects
        /\ DOMAIN project.objects = {toString(nodesFlat[n].id) : n \in EmittedNodes}

C23_ParentField_Any == ParentFields

\* C23 as amended: the same for every node list that is a forest.
C23_ParentField_Forest == IsForest => ParentFields

C23_Witness ==
    /\ pc = "done"
    /\ IsForest
    /\ \E n, m \in EmittedNodes :
          /\ nodesFlat[n].parent = Root
          /\ ObjectOf(n).parent = Absent
          /\ nodesFlat[m].parent # Root
          /\ nodesFlat[nodesFlat[m].parent].parent # Root
          /\ ObjectOf(m).parent = toString(nodesFlat[nodesFlat[m].parent].id)

(***************************************************************************)
(* C24: tree.reverse() works on one level. The child list of every node    *)
(* that is no child of the virtual root is left as it is, members and      *)
(* order; the children handed from one node of a pair to the other arrive  *)
(* as the list they were, in their order.                                  *)
(***************************************************************************)
BelowRootChildren == DOMAIN nodesFlat \ Range(tree)

C24_OneLevel ==
    [][pc = "reverse" =>
        /\ \A n \in BelowRootChildren :
              nodesFlat'[n].children = nodesFlat[n].children
        /\ \A k \in 1..Len(tree) :
              LET other == tree[Len(tree) + 1 - k]
              IN  nodesFlat'[other].children = nodesFlat[tree[k]].children]_vars

C24_Witness ==
    /\ pc = "dfs"
    /\ IsForest
    /\ Len(tree) >= 2
    /\ Len(JsonChildren(tree[1])) >= 2
    /\ nodesFlat[tree[Len(tree)]].children = JsonChildren(tree[1])
    /\ \E c \in Range(JsonChildren(tree[1])) :
          /\ JsonChildren(c) # <<>>
          /\ nodesFlat[c].children = JsonChildren(c)

(***************************************************************************)
(* C25: in images, materials, meshes, skins and animations an entry with a *)
(* name that is not empty keeps it, and the k-th entry (from 0) among      *)
(* those of its category whose name is missing or empty is named           *)
(* <category>_<k>: the entries of other categories and the named entries   *)
(* do not advance the counter.                                             *)
(***************************************************************************)
NamedCategories == {"images", "materials", "meshes", "skins", "animations"}

Prefix(cat) ==
    CASE cat = "images"     -> "image_"
      [] cat = "materials"  -> "material_"
      [] cat = "meshes"     -> "mesh_"
      [] cat = "skins"      -> "skin_"
      [] cat = "animations" -> "animation_"

Unnamed(cat, j) == json[cat][j].name = Absent \/ json[cat][j].name = EmptyString

\* The name the claim gives to the j-th entry of the category.
NameByClaim(cat, j) ==
    IF Unnamed(cat, j)
    THEN <<Prefix(cat)>> \o toString(Cardinality({l \in 1..(j - 1) : Unnamed(cat, l)}))
    ELSE json[cat][j].name

\* The id of the j-th entry the build has added to the category.
NthAllocated(cat, j) ==
    CHOOSE x \in Allocated(cat) : Cardinality({y \in Allocated(cat) : y < x}) = j - 1

C25_DefaultNames ==
    \A cat \in NamedCategories :
        /\ Cardinality(Allocated(cat)) <= Len(json[cat])
        /\ pc = "done" => Cardinality(Allocated(cat)) = Len(json[cat])
        /\ \A j \in 1..Cardinality(Allocated(cat)) :
              project[cat][toString(NthAllocated(cat, j))].link.name = NameByClaim(cat, j)

C25_Witness ==
    /\ pc = "done"
    /\ Len(json.images) = 2
    /\ \A cat \in NamedCategories :
          /\ json[cat][1].name = <<"a">>
          /\ json[cat][2].name = EmptyString
          /\ project[cat][toString(NthAllocated(cat, 2))].link.name = <<Prefix(cat), "0">>

(***************************************************************************)
(* C26: with the version detected from the editor, and neither             *)
(* --legacy-import nor reserved ids asking for it, the legacy import is    *)
(* enabled exactly for the versions 0.9.4 and above.                       *)
(***************************************************************************)
\* v is a lower version than w.
VersionLess(v, w) ==
    \/ v[1] < w[1]
    \/ v[1] = w[1] /\ v[2] < w[2]
    \/ v[1] = w[1] /\ v[2] = w[2] /\ v[3] < w[3]

VersionDetected ==
    /\ mainPc \in {"loop", "build"}
    /\ \E k \in 1..Len(spawned) : spawned[k].run = "help"

ByDefault == ~HasOption(argv, <<"--legacy-import">>) /\ reservedIDs = 0

AllAllocated == UNION {Allocated(CategoryOrder[a]) : a \in 1..Len(CategoryOrder)}

RECURSIVE AllocatedUpTo(_)
AllocatedUpTo(a) ==
    IF a = 0 THEN 0
    ELSE Cardinality(Allocated(CategoryOrder[a])) + AllocatedUpTo(a - 1)

\* The entries a document asks for: one per image, material, mesh, skin,
\* node and animation, and one per texture source.
EntriesAsked ==
    Len(json.images) + Cardinality({SourceAt(k) : k \in 1..Len(json.textures)})
    + Len(json.materials) + Len(json.meshes) + Len(json.skins) + NodeCount
    + Len(json.animations)

C27_OneCounter ==
    /\ pc \notin {"idle", "parse", "parsed"} =>
          /\ AllAllocated = curID..(id - 1)
          /\ AllocatedUpTo(Len(CategoryOrder)) = id - curID
    /\ pc = "done" =>
          /\ result = id
          /\ IsForest => result - curID = EntriesAsked

C27_Witness ==
    /\ pc = "done"
    /\ Len(json.images) = 2
    /\ Len(json.textures) = 3
    /\ Cardinality(Allocated("textures")) = 2
    /\ NodeCount = 2
    /\ result - curID = 14

(***************************************************************************)
(* C28: every id a build seeded from a parsed template allocates is        *)
(* greater than every numeric key of every category of the template        *)
(* project file, so no entry of the build takes the key of an entry        *)
(* carried over from the template.                                         *)
(***************************************************************************)
\* The numeric keys of the template project file main has parsed.
FileNumericKeys ==
    {n \in UNION {{Number(e.key) : e \in Range(files.template.json[TemplateCategories[c]])} :
                  c \in 1..Len(TemplateCategories)} : ~isNaN(n)}

FromParsedTemplate ==
    /\ mainPc = "build"
    /\ HasOption(argv, <<"--template-project-path">>)

C28_AboveTemplateKeys ==
    FromParsedTemplate =>
        \A a \in AllAllocated : \A k \in FileNumericKeys : a > k

(***************************************************************************)
(* C29: the traversal is one bounded pass that ends for every node list:   *)
(* no run ends with the call stack exhausted. It visits only nodes that    *)
(* can be reached from a node no node lists; when no node index is listed  *)
(* more than once, it visits each of those exactly once, and the nodes on  *)
(* a cycle never.                                                          *)
(***************************************************************************)
\* The nodes reached from the nodes no node lists, by the children lists of
\* the document.
RECURSIVE ReachedFrom(_, _)
ReachedFrom(S, fuel) ==
    IF fuel = 0 THEN S
    ELSE ReachedFrom(S \cup UNION {Range(JsonChildren(n)) : n \in S}, fuel - 1)

Reachable == ReachedFrom(Unlisted, NodeCount)

ListedOnce == \A n \in NodeIdxs : Occurrences(n) <= 1

C29_BoundedPass ==
    /\ error # "RangeError"
    /\ pc \in {"dfs"} \cup AfterDfs => EmittedNodes \subseteq Reachable
    /\ (ListedOnce /\ pc \in AfterDfs) =>
          /\ EmittedNodes = Reachable
          /\ Cardinality(DOMAIN project.objects) = Cardinality(Reachable)

(***************************************************************************)
(* C30: for every editor process spawned, in whatever order its 'exit' and *)
(* 'error' events come, resolve or reject is called once: the promise is   *)
(* resolved only by an exit with code 0 and rejected by anything else.     *)
(* childProc is null once the promise is settled, so the SIGINT handler    *)
(* never kills a child that has finished.                                  *)
(***************************************************************************)
SettledOnce(p) ==
    LET child == procs[p]
    IN  /\ child.calls <= 1
        /\ (child.exitSeen \/ child.errors > 0) =>
              (child.calls = 1 /\ child.promise # "pending")
        /\ child.promise = "resolved" <=> child.by = <<"exit", 0>>
        /\ child.promise = "rejected" <=> child.by \in {<<"exit", 1>>, <<"error", -1>>}
        /\ child.promise # "pending" => childProc # p

C30_SettledOnce ==
    /\ \A p \in DOMAIN procs : SettledOnce(p)
    /\ (procs # <<>> /\ Awaited) => childProc = Null
    /\ \A p \in killed : ~procs[p].exitSeen /\ procs[p].promise = "pending"

\* The interrupt has killed the running child after an earlier child had
\* emitted both events.
C30_Witness ==
    /\ exited
    /\ killed # {}
    /\ \E p \in DOMAIN procs :
          /\ procs[p].exitSeen
          /\ procs[p].errors > 0
          /\ procs[p].calls = 1

====
